---- MODULE Spec2Model ----
(***************************************************************************)
(* State-machine model of the resilience core of the pH monitor:           *)
(*   - StateManager      (src/lib/core/lean_state.py)                      *)
(*   - the main loop     (src/code.py)                                     *)
(*   - MQTTManager       (src/lib/networking/robust_mqtt.py)               *)
(*   - send_data_to_feed (src/lib/networking/adafruit_io_mqtt.py)          *)
(*   - WiFiManager       (src/lib/networking/lean_wifi.py)                 *)
(*   - I2CSafeWrapper    (src/lib/utilities/i2c_safe.py)                   *)
(*   - the robust measurements (src/lib/sensors/robust_measurement.py,     *)
(*                          src/lib/sensors/measurement_integration.py)    *)
(*   - TimeManager       (src/lib/time_sync/robust_time.py)                *)
(* Time is counted in ticks of 0.1 s (time.monotonic() scaled by 10).      *)
(***************************************************************************)
EXTENDS Integers, Sequences, FiniteSets, TLC

VARIABLES
    state,        \* StateManager.state
    components,   \* StateManager.components : name -> 0 | 1 | 2
    alerts,       \* StateManager.alerts (the "time" field is never read: omitted)
    readings,     \* StateManager.readings : sensor -> [value, time]
    pc,           \* position of code.py: "startup" | "top" | "cycle" | "halted"
    last,         \* the most recent call and its arguments / return value
    now,                      \* time.monotonic(), in ticks of 0.1 s
    time_steps,               \* how often the environment let time pass
    client,                   \* MQTTManager.client: "None", or a client "up" / "down"
    last_connection_attempt,  \* MQTTManager.last_connection_attempt
    connection_attempts,      \* MQTTManager.connection_attempts
    successful_connections,   \* MQTTManager.successful_connections
    consecutive_failures,     \* MQTTManager.consecutive_failures
    message_queue,            \* MQTTManager.message_queue
    last_send_attempt,        \* MQTTManager.last_send_attempt
    messages_sent,            \* MQTTManager.messages_sent
    messages_queued,          \* MQTTManager.messages_queued
    messages_dropped,         \* MQTTManager.messages_dropped
    error_32_count,           \* MQTTManager.error_32_count
    submitted,                \* number of readings handed to the manager so far
    delivered,                \* values the broker received, in order of arrival
    burst,                    \* since the queue was last drained: the values held then and
                              \* queued since, and messages_dropped at that time
    radio_connected,            \* wifi.radio.connected
    socket_pool,                \* WiFiManager.socket_pool is not None
    wifi_consecutive_failures,  \* WiFiManager.consecutive_failures
    mqtt_error_count,           \* WiFiManager.mqtt_error_count
    last_network_reset,         \* WiFiManager.last_network_reset
    i2c,                        \* I2CSafeWrapper.i2c: which bus object the wrapper holds
    total_operations,           \* I2CSafeWrapper.total_operations
    failed_operations,          \* I2CSafeWrapper.failed_operations
    timeouts,                   \* I2CSafeWrapper.timeouts
    resets,                     \* I2CSafeWrapper.resets
    last_reset_time,            \* I2CSafeWrapper.last_reset_time
    reads,                      \* number of safe_read_sensor calls made so far
    sensor_function,            \* what the sensor accessor answers on its successive calls
    sample_count,               \* the sample_count a robust measurement is asked for
    measurement_manager,        \* MeasurementManager: its fields, with its two robust objects
    time_manager,               \* TimeManager: its fields
    sync_attempt,               \* the last NTP sync attempt: whether one was made, its
                                \* outcome, and time.monotonic() when it ended
    watchdog                    \* StateManager.watchdog: whether one was given, and how
                                \* often it has been fed

smVars == <<state, components, alerts, readings>>

mqttVars == <<now, time_steps, client, last_connection_attempt, connection_attempts,
              successful_connections, consecutive_failures, message_queue,
              last_send_attempt, messages_sent, messages_queued, messages_dropped,
              error_32_count, submitted, delivered, burst>>

wifiVars == <<radio_connected, socket_pool, wifi_consecutive_failures,
              mqtt_error_count, last_network_reset>>

i2cVars == <<i2c, total_operations, failed_operations, timeouts, resets,
             last_reset_time, reads>>

extVars == <<sensor_function, sample_count, measurement_manager, time_manager,
             sync_attempt, watchdog>>

\* the fields of the MQTT manager and its broker, without the clock
mqttFields == <<client, last_connection_attempt, connection_attempts,
                successful_connections, consecutive_failures, message_queue,
                last_send_attempt, messages_sent, messages_queued, messages_dropped,
                error_32_count, submitted, delivered, burst>>

----------------------------------------------------------------------------
(* class SystemState *)
STARTING == 0
HEALTHY  == 1
DEGRADED == 2
CRITICAL == 3

(* StateManager.__init__ thresholds, in degrees F *)
temp_critical == 107
temp_warning  == 105

(* Capacity of the alert ring kept by add_alert *)
MaxAlertsKept == 5

(* Python None for an optional string argument *)
None == "None"

----------------------------------------------------------------------------
(* Inputs the calls are driven with *)

\* Component names: the primary safety sensor and two others
ComponentNames == {"temperature", "mqtt", "wifi"}

\* Health strings passed by callers; "bogus" is a string outside health_map
HealthArgs == {"healthy", "degraded", "failed", "bogus"}

\* error argument: None or a message
ErrorArgs == {None, "err"}

\* Reading values: numbers around both thresholds, and a non-numeric value
\* (isnum FALSE) such as the "ERROR" strings sensors return
Num(n) == [isnum |-> TRUE, v |-> n]
NonNumeric == [isnum |-> FALSE, v |-> 0]
ReadingValues == {Num(104), Num(105), Num(107), Num(108), NonNumeric}

\* update_reading calls: the temperature with every value, and the smoothed
\* temperature (code.py reports it under its own sensor name) above critical
ReadingCalls == ({"temperature"} \X ReadingValues) \cup {<<"temperature_smooth", Num(108)>>}

\* max_age of get_reading: its default of 60 s, and the 120 s get_status asks for
default_max_age == 600
status_max_age == 1200

\* In the health specification at most this many alerts are raised
MaxAlertsRaised == 1

----------------------------------------------------------------------------
(* StateManager, as functions of the manager's fields *)

\* health_map.get(health, 2)
health_map(health) ==
    CASE health = "healthy"  -> 0
      [] health = "degraded" -> 1
      [] health = "failed"   -> 2
      [] OTHER               -> 2

\* add_alert that drops the new alert when 5 are held
add_alert_keep_oldest(al, message, severity) ==
    LET appended == Append(al, [msg |-> message, sev |-> severity])
    IN  IF Len(appended) > MaxAlertsKept THEN al ELSE appended

\* add_alert: append, then drop the oldest when more than 5 are held
add_alert(al, message, severity) ==
    LET appended == Append(al, [msg |-> message, sev |-> severity])
    IN  IF Len(appended) > MaxAlertsKept THEN Tail(appended) ELSE appended

\* _update_system_state: the state computed from the component table
update_system_state(comps) ==
    LET failed   == Cardinality({n \in DOMAIN comps : comps[n] = 2})
        degraded == Cardinality({n \in DOMAIN comps : comps[n] = 1})
    IN  IF "temperature" \in DOMAIN comps /\ comps["temperature"] = 2
        THEN CRITICAL
        ELSE IF failed >= 2 THEN CRITICAL
        ELSE IF failed >= 1 \/ degraded >= 2 THEN DEGRADED
        ELSE HEALTHY

\* dict assignment d[k] = v
DictSet(d, k, v) == [x \in (DOMAIN d) \cup {k} |-> IF x = k THEN v ELSE d[x]]

\* dict.get(k, default)
DictGet(d, k, default) == IF k \in DOMAIN d THEN d[k] ELSE default

\* register_component with the component starting as healthy
register_component_healthy(sm, name) ==
    [sm EXCEPT !.components = DictSet(sm.components, name, 0)]

\* register_component: the component starts as failed; the state is not touched
register_component(sm, name) ==
    [sm EXCEPT !.components = DictSet(sm.components, name, 2)]

\* update_component_health: store the health, alert on an error with a
\* non-healthy report, recompute the state only if the stored health changed
update_component_health(sm, name, health, error) ==
    LET old_health == DictGet(sm.components, name, 2)
        comps      == DictSet(sm.components, name, health_map(health))
        al         == IF error # None /\ health # "healthy"
                      THEN add_alert(sm.alerts, <<name, error>>, "warning")
                      ELSE sm.alerts
    IN  [sm EXCEPT !.components = comps,
                   !.alerts = al,
                   !.state = IF old_health # comps[name]
                             THEN update_system_state(comps)
                             ELSE sm.state]

\* update_reading with the critical threshold compared by > instead of >=
update_reading_gt(sm, sensor, value) ==
    LET rd == DictSet(sm.readings, sensor, [value |-> value, time |-> now])
        check == sensor = "temperature" /\ value.isnum
    IN  IF check /\ value.v > temp_critical
        THEN [sm EXCEPT !.readings = rd,
                        !.alerts = add_alert(sm.alerts,
                                     <<"CRITICAL: Temp", ToString(value.v)>>, "critical"),
                        !.state = CRITICAL]
        ELSE IF check /\ value.v >= temp_warning
        THEN [sm EXCEPT !.readings = rd,
                        !.alerts = add_alert(sm.alerts,
                                     <<"WARNING: Temp", ToString(value.v)>>, "warning")]
        ELSE [sm EXCEPT !.readings = rd]

\* update_reading(sensor, value, timestamp): store the reading; the
\* temperature safety check
update_reading_at(sm, sensor, value, timestamp) ==
    LET rd == DictSet(sm.readings, sensor, [value |-> value, time |-> timestamp])
        check == sensor = "temperature" /\ value.isnum
    IN  IF check /\ value.v >= temp_critical
        THEN [sm EXCEPT !.readings = rd,
                        !.alerts = add_alert(sm.alerts,
                                     <<"CRITICAL: Temp", ToString(value.v)>>, "critical"),
                        !.state = CRITICAL]
        ELSE IF check /\ value.v >= temp_warning
        THEN [sm EXCEPT !.readings = rd,
                        !.alerts = add_alert(sm.alerts,
                                     <<"WARNING: Temp", ToString(value.v)>>, "warning")]
        ELSE [sm EXCEPT !.readings = rd]

\* update_reading without a timestamp (no caller passes one): the time of
\* the call
update_reading(sm, sensor, value) == update_reading_at(sm, sensor, value, now)

\* What get_reading returns: a stored value, or None
Found(value) == [found |-> TRUE, value |-> value]
NoReading == [found |-> FALSE, value |-> NonNumeric]

\* get_reading that takes a reading of exactly max_age as too old
get_reading_lt(sm, sensor, max_age) ==
    IF sensor \notin DOMAIN sm.readings THEN NoReading
    ELSE IF now - sm.readings[sensor].time < max_age
    THEN Found(sm.readings[sensor].value)
    ELSE NoReading

\* get_reading(sensor, max_age): the stored value when its age is at most
\* max_age
get_reading(sm, sensor, max_age) ==
    IF sensor \notin DOMAIN sm.readings THEN NoReading
    ELSE IF now - sm.readings[sensor].time <= max_age
    THEN Found(sm.readings[sensor].value)
    ELSE NoReading

\* get_status: the summary; comparing a truthy non-numeric temperature
\* reading with temp_critical raises
get_status(sm) ==
    LET temp_reading == get_reading(sm, "temperature", status_max_age)
        truthy == temp_reading.found
                    /\ (temp_reading.value.isnum => temp_reading.value.v # 0)
    IN  [raised |-> truthy /\ ~temp_reading.value.isnum,
         state |-> sm.state,
         components |-> [n \in DOMAIN sm.components |->
                            <<"OK", "WARN", "FAIL">>[sm.components[n] + 1]],
         alerts |-> Len(sm.alerts),
         temp_safe |-> IF truthy /\ temp_reading.value.isnum
                       THEN temp_reading.value.v < temp_critical
                       ELSE TRUE]

\* microcontroller.watchdog as handed to StateManager.__init__ (present
\* FALSE: watchdog=None), with the number of feeds it has received
Watchdog(present) == [present |-> present, feeds |-> 0]

InitWatchdog == watchdog = Watchdog(TRUE)

\* should_continue that also stops on a degraded system
should_continue_strict(st) == st # CRITICAL /\ st # DEGRADED

\* should_continue
should_continue(st) == st # CRITICAL

\* feed_watchdog: feed when there is a watchdog and the system should
\* continue; an exception of watchdog.feed() is swallowed.  called: feed()
\* was called
feed_watchdog(st, wd, feed_raises) ==
    IF wd.present /\ should_continue(st)
    THEN [wd |-> IF feed_raises THEN wd ELSE [wd EXCEPT !.feeds = @ + 1],
          called |-> TRUE, raised |-> FALSE]
    ELSE [wd |-> wd, called |-> FALSE, raised |-> FALSE]

\* The manager's fields as one record, and their assignment from one
SM == [state |-> state, components |-> components, alerts |-> alerts,
       readings |-> readings]

SetSM(sm) ==
    /\ state' = sm.state
    /\ components' = sm.components
    /\ alerts' = sm.alerts
    /\ readings' = sm.readings

\* the manager's fields are those of the record
SetupSM(sm) ==
    /\ state = sm.state
    /\ components = sm.components
    /\ alerts = sm.alerts
    /\ readings = sm.readings

\* StateManager.__init__
EmptyDict == [x \in {} |-> 0]

InitSM ==
    /\ state = STARTING
    /\ components = EmptyDict
    /\ alerts = <<>>
    /\ readings = EmptyDict

----------------------------------------------------------------------------
(* Calls on the state manager, made by the startup code and inside a cycle *)

Running == pc \in {"startup", "cycle"}

Call(op, a, b, c) == [op |-> op, a |-> a, b |-> b, c |-> c]

RegisterComponent(name) ==
    /\ Running
    /\ SetSM(register_component(SM, name))
    /\ last' = Call("register_component", name, None, None)
    /\ UNCHANGED <<pc, mqttVars>>
    /\ UNCHANGED <<wifiVars, i2cVars, extVars>>

UpdateComponentHealth(name, health, error) ==
    /\ Running
    /\ LET sm == update_component_health(SM, name, health, error)
       IN  /\ Len(sm.alerts) <= MaxAlertsRaised
           /\ SetSM(sm)
    /\ last' = Call("update_component_health", name, health, error)
    /\ UNCHANGED <<pc, mqttVars>>
    /\ UNCHANGED <<wifiVars, i2cVars, extVars>>

UpdateReading(sensor, value) ==
    /\ Running
    /\ LET sm == update_reading(SM, sensor, value)
       IN  /\ Len(sm.alerts) <= MaxAlertsRaised
           /\ SetSM(sm)
    /\ last' = Call("update_reading", sensor, value, None)
    /\ UNCHANGED <<pc, mqttVars>>
    /\ UNCHANGED <<wifiVars, i2cVars, extVars>>

\* state_manager.add_alert(message, severity), as the sensor cycle calls it
AddAlert(message, severity) ==
    /\ Running
    /\ SetSM([SM EXCEPT !.alerts = add_alert(SM.alerts, message, severity)])
    /\ last' = Call("add_alert", message, severity, None)
    /\ UNCHANGED <<pc, mqttVars>>
    /\ UNCHANGED <<wifiVars, i2cVars, extVars>>

\* update_component_health and update_reading with no bound on the number
\* of alerts raised (the list itself never holds more than 5)
ReportHealth(name, health, error) ==
    /\ Running
    /\ SetSM(update_component_health(SM, name, health, error))
    /\ last' = Call("update_component_health", name, health, error)
    /\ UNCHANGED <<pc, mqttVars>>
    /\ UNCHANGED <<wifiVars, i2cVars, extVars>>

ReportReading(sensor, value) ==
    /\ Running
    /\ SetSM(update_reading(SM, sensor, value))
    /\ last' = Call("update_reading", sensor, value, None)
    /\ UNCHANGED <<pc, mqttVars>>
    /\ UNCHANGED <<wifiVars, i2cVars, extVars>>

GetReading(sensor, max_age) ==
    /\ Running
    /\ last' = Call("get_reading", sensor, max_age, get_reading(SM, sensor, max_age))
    /\ UNCHANGED <<smVars, pc, mqttVars>>
    /\ UNCHANGED <<wifiVars, i2cVars, extVars>>

\* Feeds of the watchdog in a behaviour
MaxFeeds == 3

\* state_manager.feed_watchdog(), with whether watchdog.feed() raises
FeedWatchdog(feed_raises) ==
    /\ pc = "cycle"
    /\ watchdog.feeds < MaxFeeds
    /\ \E c \in {feed_watchdog(state, watchdog, feed_raises)} :
           /\ watchdog' = c.wd
           /\ last' = [op |-> "feed_watchdog", called |-> c.called, raised |-> c.raised,
                       feed_raises |-> feed_raises]
    /\ UNCHANGED <<smVars, pc, mqttVars, wifiVars, i2cVars, sensor_function,
                   sample_count, measurement_manager, time_manager, sync_attempt>>

----------------------------------------------------------------------------
(* code.py: end of startup and the main loop *)

\* "Force system to operational state": a Critical state is overwritten by 2
ForceOperational ==
    /\ pc = "startup"
    /\ state' = IF ~should_continue(state) THEN 2 ELSE state
    /\ pc' = "top"
    /\ last' = Call("force_operational", None, None, None)
    /\ UNCHANGED <<components, alerts, readings, mqttVars>>
    /\ UNCHANGED <<wifiVars, i2cVars, extVars>>

\* while state_manager.should_continue(): the test passes, a cycle begins
LoopEnter ==
    /\ pc = "top"
    /\ should_continue(state)
    /\ pc' = "cycle"
    /\ last' = Call("should_continue", "True", None, None)
    /\ UNCHANGED <<smVars, mqttVars>>
    /\ UNCHANGED <<wifiVars, i2cVars, extVars>>

\* the test fails: the loop is left and the program goes to its shutdown
LoopExit ==
    /\ pc = "top"
    /\ ~should_continue(state)
    /\ pc' = "halted"
    /\ last' = Call("should_continue", "False", None, None)
    /\ UNCHANGED <<smVars, mqttVars>>
    /\ UNCHANGED <<wifiVars, i2cVars, extVars>>

\* the end of the loop body: sleep, then back to the test
CycleEnd ==
    /\ pc = "cycle"
    /\ pc' = "top"
    /\ last' = Call("cycle_end", None, None, None)
    /\ UNCHANGED <<smVars, mqttVars>>
    /\ UNCHANGED <<wifiVars, i2cVars, extVars>>

----------------------------------------------------------------------------
(* MQTTManager and its transport *)

\* Capacity of the queue: 10 in the code (robust_mqtt.py:40), kept small here
max_queue_size == 2

(* MQTTManager.__init__ timing, in ticks of 0.1 s *)
reconnect_interval == 50
send_interval == 5

(* _process_queue: messages older than 300 s are dropped; it sleeps 0.1 s   *)
(* after each message it sent                                               *)
max_message_age == 3000
drain_sleep == 1

(* _attempt_connection: more than 5 consecutive failures report "failed" *)
max_degraded_failures == 5

(* time.monotonic() when the managers are constructed *)
BootTicks == 50

(* Bounds of the delivery specification *)
MaxSubmitted == 3
MaxTimeSteps == 2

\* Amounts of time the environment lets pass between two calls
TimeSteps == {send_interval, max_message_age}

\* What connect_to_adafruit_io returns: a connected client ("up") or None.
\* (A client that reports not connected ends like None: the exception path.)
ConnectResults == {"up", "None"}

\* send_data_to_feed: publish and loop inside try/except; an error of the
\* transport is caught and False is returned, nothing is raised
send_data_to_feed(publish_ok) == [raised |-> FALSE, ret |-> publish_ok, error |-> None]

\* the broker's log after a publish of value v
Published(log, v, publish_ok) == IF publish_ok THEN Append(log, v) ELSE log

\* MQTTManager.is_connected
is_connected(m) == m.client = "up"

\* _send_message: rate limit, connection check, publish.
\* Returns the manager, the return value and what the publish did.
send_message(m, message, publish_ok) ==
    IF (m.now - m.last_send_attempt) < send_interval
    THEN [m |-> m, ret |-> FALSE, pub |-> "none"]
    ELSE LET m1 == [m EXCEPT !.last_send_attempt = m.now]
         IN  IF ~is_connected(m1)
             THEN [m |-> m1, ret |-> FALSE, pub |-> "none"]
             ELSE LET r == send_data_to_feed(publish_ok)
                      log == Published(m1.delivered, message.value, publish_ok)
                  IN  IF ~r.raised
                      THEN [m |-> [m1 EXCEPT
                                     !.delivered = log,
                                     !.messages_sent = @ + 1,
                                     !.sm = update_component_health(@, "mqtt", "healthy", None)],
                            ret |-> TRUE,
                            pub |-> IF publish_ok THEN "ok" ELSE "fail"]
                      ELSE [m |-> [m1 EXCEPT
                                     !.delivered = log,
                                     \* if "32" in error_str: count it and tell
                                     \* the WiFi manager (report_mqtt_error)
                                     !.error_32_count = IF r.error = "32" THEN @ + 1 ELSE @,
                                     !.reported = (r.error = "32"),
                                     !.client = "None",
                                     !.sm = update_component_health(@, "mqtt", "degraded",
                                                                    "Send failed")],
                            ret |-> FALSE,
                            pub |-> "fail"]

\* the while loop of _queue_message: pop(0) until there is room
RECURSIVE DropOldest(_)
DropOldest(m) ==
    IF Len(m.message_queue) >= max_queue_size
    THEN DropOldest([m EXCEPT !.message_queue = Tail(@),
                              !.messages_dropped = @ + 1])
    ELSE m

\* _queue_message that makes room only once the queue is over its capacity
queue_message_late(m, message) ==
    LET m1 == IF Len(m.message_queue) > max_queue_size
              THEN [m EXCEPT !.message_queue = Tail(@), !.messages_dropped = @ + 1]
              ELSE m
    IN  [m1 EXCEPT !.message_queue = Append(@, message),
                   !.messages_queued = @ + 1,
                   !.burst.values = Append(@, message.value)]

\* _queue_message
queue_message(m, message) ==
    LET m1 == DropOldest(m)
    IN  [m1 EXCEPT !.message_queue = Append(@, message),
                   !.messages_queued = @ + 1,
                   !.burst.values = Append(@, message.value)]

\* the removal walking messages_to_remove forwards: every pop shifts the
\* later indices, so the wrong entries (or none) are removed
RECURSIVE RemoveForward(_, _, _)
RemoveForward(q, to_remove, i) ==
    IF i > Len(q) THEN q
    ELSE RemoveForward(IF i \in to_remove
                       THEN SubSeq(q, 1, i - 1) \o SubSeq(q, i + 1, Len(q))
                       ELSE q,
                       to_remove, i + 1)

RemoveIndices_forward(q, to_remove, i) == RemoveForward(q, to_remove, 1)

\* for i in reversed(messages_to_remove): message_queue.pop(i)
RECURSIVE RemoveIndices(_, _, _)
RemoveIndices(q, to_remove, i) ==
    IF i = 0 THEN q
    ELSE RemoveIndices(IF i \in to_remove
                       THEN SubSeq(q, 1, i - 1) \o SubSeq(q, i + 1, Len(q))
                       ELSE q,
                       to_remove, i - 1)

\* the for loop of _process_queue from message i on; acc carries
\* messages_to_remove, messages_sent, the broker's log, the clock and the
\* first value whose publish failed (0: none)
RECURSIVE DrainLoop(_, _, _, _)
DrainLoop(q, i, acc, oks) ==
    IF i > Len(q) THEN acc
    ELSE IF acc.now - q[i].timestamp > max_message_age
    THEN DrainLoop(q, i + 1, [acc EXCEPT !.to_remove = @ \cup {i}], oks)
    ELSE LET r == send_data_to_feed(oks[i])
         IN  IF r.raised
             THEN [acc EXCEPT !.failed = IF @ = 0 THEN q[i].value ELSE @]
             ELSE DrainLoop(q, i + 1,
                            [acc EXCEPT
                               !.to_remove = @ \cup {i},
                               !.messages_sent = @ + 1,
                               !.delivered = Published(@, q[i].value, oks[i]),
                               !.failed = IF @ = 0 /\ ~oks[i] THEN q[i].value ELSE @,
                               !.now = @ + drain_sleep],
                            oks)

\* the values of the messages of a queue, in its order
Values(q) == [i \in 1..Len(q) |-> q[i].value]

\* _process_queue
process_queue(m, oks) ==
    IF m.message_queue = <<>> THEN m
    ELSE LET acc == DrainLoop(m.message_queue, 1,
                              [to_remove |-> {}, messages_sent |-> m.messages_sent,
                               delivered |-> m.delivered, now |-> m.now, failed |-> 0],
                              oks)
             left == RemoveIndices(m.message_queue, acc.to_remove, Len(m.message_queue))
         IN  [m EXCEPT !.message_queue = left,
                       !.messages_sent = acc.messages_sent,
                       !.delivered = acc.delivered,
                       !.now = acc.now,
                       !.failed = acc.failed,
                       !.drained = TRUE,
                       !.burst = [values |-> Values(left), dropped |-> m.messages_dropped]]

\* _attempt_connection that keeps the failure count on a success
attempt_connection_no_reset(m, wifi, connect_result, oks) ==
    IF m.connection_attempts > 0
       /\ (m.now - m.last_connection_attempt) < reconnect_interval
    THEN m
    ELSE LET m1 == [m EXCEPT !.last_connection_attempt = m.now,
                             !.connection_attempts = @ + 1]
         IN  IF wifi /\ connect_result = "up"
             THEN process_queue(
                    [m1 EXCEPT !.client = "up",
                               !.successful_connections = @ + 1,
                               !.attempt = "ok",
                               !.sm = update_component_health(@, "mqtt", "healthy", None)],
                    oks)
             ELSE LET n == m1.consecutive_failures + 1
                  IN  [m1 EXCEPT !.consecutive_failures = n,
                                 !.sm = update_component_health(@, "mqtt",
                                          IF n > max_degraded_failures
                                          THEN "failed" ELSE "degraded",
                                          "Connection failed"),
                                 !.attempt = "failed",
                                 !.client = "None"]

\* _attempt_connection
attempt_connection(m, wifi, connect_result, oks) ==
    IF m.connection_attempts > 0
       /\ (m.now - m.last_connection_attempt) < reconnect_interval
    THEN m
    ELSE LET m1 == [m EXCEPT !.last_connection_attempt = m.now,
                             !.connection_attempts = @ + 1]
         IN  \* get_socket_pool() is None without WiFi: the exception path
             IF wifi /\ connect_result = "up"
             THEN process_queue(
                    [m1 EXCEPT !.client = "up",
                               !.successful_connections = @ + 1,
                               !.consecutive_failures = 0,
                               !.attempt = "ok",
                               !.sm = update_component_health(@, "mqtt", "healthy", None)],
                    oks)
             ELSE LET n == m1.consecutive_failures + 1
                  IN  [m1 EXCEPT !.consecutive_failures = n,
                                 !.sm = update_component_health(@, "mqtt",
                                          IF n > max_degraded_failures
                                          THEN "failed" ELSE "degraded",
                                          "Connection failed"),
                                 !.attempt = "failed",
                                 !.client = "None"]

\* initialize: without WiFi report degraded, else attempt at once
initialize(m, wifi, connect_result, oks) ==
    IF ~wifi
    THEN [m EXCEPT !.sm = update_component_health(@, "mqtt", "degraded",
                                                  "No WiFi connection")]
    ELSE attempt_connection([m EXCEPT !.last_connection_attempt = 0],
                            wifi, connect_result, oks)

\* update that does not ask whether WiFi is connected
update_without_wifi(m, wifi, connect_result, oks) ==
    LET m1 == IF ~is_connected(m)
                 /\ (m.now - m.last_connection_attempt) >= reconnect_interval
              THEN attempt_connection(m, wifi, connect_result, oks)
              ELSE m
    IN  IF is_connected(m1) /\ m1.message_queue # <<>>
        THEN process_queue(m1, oks)
        ELSE m1

\* update
update(m, wifi, connect_result, oks) ==
    LET m1 == IF ~is_connected(m) /\ wifi
                 /\ (m.now - m.last_connection_attempt) >= reconnect_interval
              THEN attempt_connection(m, wifi, connect_result, oks)
              ELSE m
    IN  IF is_connected(m1) /\ m1.message_queue # <<>>
        THEN process_queue(m1, oks)
        ELSE m1

\* The manager's fields (with the state manager, the clock and the broker's
\* log it acts on) as one record, and their assignment from one.
\* drained / failed / attempt report what the call did: whether
\* _process_queue walked the queue, the first value whose publish failed
\* there (0: none), and how a connection attempt ended ("none": not made).
MQ == [client |-> client,
       last_connection_attempt |-> last_connection_attempt,
       connection_attempts |-> connection_attempts,
       successful_connections |-> successful_connections,
       consecutive_failures |-> consecutive_failures,
       message_queue |-> message_queue,
       last_send_attempt |-> last_send_attempt,
       messages_sent |-> messages_sent,
       messages_queued |-> messages_queued,
       messages_dropped |-> messages_dropped,
       error_32_count |-> error_32_count,
       sm |-> SM, now |-> now, delivered |-> delivered, burst |-> burst,
       drained |-> FALSE, failed |-> 0, attempt |-> "none", reported |-> FALSE]

SetMQ(m) ==
    /\ client' = m.client
    /\ last_connection_attempt' = m.last_connection_attempt
    /\ connection_attempts' = m.connection_attempts
    /\ successful_connections' = m.successful_connections
    /\ consecutive_failures' = m.consecutive_failures
    /\ message_queue' = m.message_queue
    /\ last_send_attempt' = m.last_send_attempt
    /\ messages_sent' = m.messages_sent
    /\ messages_queued' = m.messages_queued
    /\ messages_dropped' = m.messages_dropped
    /\ error_32_count' = m.error_32_count
    /\ SetSM(m.sm)
    /\ now' = m.now
    /\ delivered' = m.delivered
    /\ burst' = m.burst

\* MQTTManager.__init__ (before it registers "mqtt")
InitMQTT ==
    /\ now = BootTicks
    /\ time_steps = 0
    /\ client = "None"
    /\ last_connection_attempt = 0
    /\ connection_attempts = 0
    /\ successful_connections = 0
    /\ consecutive_failures = 0
    /\ message_queue = <<>>
    /\ last_send_attempt = 0
    /\ messages_sent = 0
    /\ messages_queued = 0
    /\ messages_dropped = 0
    /\ error_32_count = 0
    /\ submitted = 0
    /\ delivered = <<>>
    /\ burst = [values |-> <<>>, dropped |-> 0]

----------------------------------------------------------------------------
(* Calls on the MQTT manager, and its environment *)

Msg(feed, value, timestamp) == [feed |-> feed, value |-> value, timestamp |-> timestamp]

Did(op, ret, pub, m) ==
    [op |-> op, ret |-> ret, pub |-> pub, drained |-> m.drained, failed |-> m.failed,
     attempt |-> m.attempt]

\* one entry of send_reading / send_readings: send, or queue when that fails
SendOrQueue(m, message, publish_ok) ==
    LET r == send_message(m, message, publish_ok)
    IN  [r EXCEPT !.m = IF r.ret THEN r.m ELSE queue_message(r.m, message)]

\* send_reading(feed_name, value)
SendReading(publish_ok) ==
    /\ pc = "cycle"
    /\ submitted < MaxSubmitted
    /\ LET r == SendOrQueue(MQ, Msg("temp", submitted + 1, now), publish_ok)
       IN  /\ SetMQ(r.m)
           /\ last' = Did("send_reading", ToString(r.ret), r.pub, r.m)
    /\ submitted' = submitted + 1
    /\ UNCHANGED <<pc, time_steps>>
    /\ UNCHANGED <<wifiVars, i2cVars, extVars>>

\* send_readings({"temp": v, "ph": w}): both entries carry the time of the call
SendReadings(ok1, ok2) ==
    /\ pc = "cycle"
    /\ submitted + 2 <= MaxSubmitted
    /\ LET r1 == SendOrQueue(MQ, Msg("temp", submitted + 1, now), ok1)
           r2 == SendOrQueue(r1.m, Msg("ph", submitted + 2, now), ok2)
           n  == (IF r1.ret THEN 1 ELSE 0) + (IF r2.ret THEN 1 ELSE 0)
       IN  /\ SetMQ(r2.m)
           /\ last' = Did("send_readings", ToString(n),
                          IF "fail" \in {r1.pub, r2.pub} THEN "fail"
                          ELSE IF "ok" \in {r1.pub, r2.pub} THEN "ok" ELSE "none",
                          r2.m)
    /\ submitted' = submitted + 2
    /\ UNCHANGED <<pc, time_steps>>
    /\ UNCHANGED <<wifiVars, i2cVars, extVars>>

\* update(), with what the environment answers: whether WiFi is connected,
\* what connecting returns, and which publishes of the drain succeed
Update(wifi, connect_result, oks) ==
    /\ pc = "cycle"
    /\ LET m == update(MQ, wifi, connect_result, oks)
       IN  /\ SetMQ(m)
           /\ last' = Did("update", None, None, m)
    /\ UNCHANGED <<pc, time_steps, submitted>>
    /\ UNCHANGED <<wifiVars, i2cVars, extVars>>

\* the environment: time passes between two calls
Advance(d) ==
    /\ pc = "cycle"
    /\ time_steps < MaxTimeSteps
    /\ now' = now + d
    /\ time_steps' = time_steps + 1
    /\ last' = [op |-> "env", ret |-> None, pub |-> None, drained |-> FALSE, failed |-> 0,
                attempt |-> "none"]
    /\ UNCHANGED <<smVars, pc, client, last_connection_attempt, connection_attempts,
                   successful_connections, consecutive_failures, message_queue,
                   last_send_attempt, messages_sent, messages_queued,
                   messages_dropped, error_32_count, submitted, delivered, burst>>
    /\ UNCHANGED <<wifiVars, i2cVars, extVars>>

\* the environment: the connection is lost, client.is_connected() turns false
LinkLoss ==
    /\ pc = "cycle"
    /\ client = "up"
    /\ client' = "down"
    /\ last' = [op |-> "env", ret |-> None, pub |-> None, drained |-> FALSE, failed |-> 0,
                attempt |-> "none"]
    /\ UNCHANGED <<smVars, pc, now, time_steps, last_connection_attempt,
                   connection_attempts, successful_connections, consecutive_failures,
                   message_queue, last_send_attempt, messages_sent, messages_queued,
                   messages_dropped, error_32_count, submitted, delivered, burst>>
    /\ UNCHANGED <<wifiVars, i2cVars, extVars>>

\* code.py startup: mqtt_manager.initialize(), once, before the main loop
Initialize(wifi, connect_result, oks) ==
    /\ pc = "startup"
    /\ LET m == initialize(MQ, wifi, connect_result, oks)
       IN  /\ SetMQ(m)
           /\ last' = Did("initialize", None, None, m)
    /\ pc' = "cycle"
    /\ UNCHANGED <<time_steps, submitted>>
    /\ UNCHANGED <<wifiVars, i2cVars, extVars>>

\* Status messages handed to the manager in a behaviour
MaxHeartbeats == 5

\* send_system_status(system_status): send_readings of the one entry
\* "system-state"; it returns the number of entries sent (0 or 1)
SendSystemStatus(publish_ok) ==
    /\ pc = "cycle"
    /\ submitted < MaxHeartbeats
    /\ LET r == SendOrQueue(MQ, Msg("system-state", submitted + 1, now), publish_ok)
       IN  /\ SetMQ(r.m)
           /\ last' = Did("send_system_status", ToString(IF r.ret THEN 1 ELSE 0), r.pub, r.m)
    /\ submitted' = submitted + 1
    /\ UNCHANGED <<pc, time_steps>>
    /\ UNCHANGED <<wifiVars, i2cVars, extVars>>

----------------------------------------------------------------------------
(* WiFiManager: connecting and the auto-recovery on MQTT errors *)

(* WiFiManager.__init__ thresholds; times in ticks of 0.1 s *)
recovery_rssi_threshold == -75
recovery_mqtt_threshold == 3
recovery_cooldown == 3000

\* _handle_failure: more than 3 consecutive failures report "failed"
max_wifi_degraded_failures == 3

\* force_reconnect sleeps 2 s between disconnect and connect
force_reconnect_sleep == 20

\* Reports made without a successful connection in between
MaxErrorCount == 4

\* wifi.radio.ap_info.rssi if wifi.radio.ap_info else None
Rssi(v) == [ap |-> TRUE, v |-> v]
NoApInfo == [ap |-> FALSE, v |-> 0]
RssiValues == {NoApInfo, Rssi(recovery_rssi_threshold + 1),
               Rssi(recovery_rssi_threshold), Rssi(recovery_rssi_threshold - 1)}

\* Amounts of time the environment lets pass between two reports
RecoverySteps == {recovery_cooldown, recovery_cooldown - force_reconnect_sleep - 1}

\* The WiFi manager's fields (with the state manager and the clock) as one
\* record; forced reports whether the call ran force_reconnect
WF == [radio_connected |-> radio_connected,
       socket_pool |-> socket_pool,
       consecutive_failures |-> wifi_consecutive_failures,
       mqtt_error_count |-> mqtt_error_count,
       last_network_reset |-> last_network_reset,
       sm |-> SM, now |-> now, forced |-> FALSE]

SetWF(w) ==
    /\ radio_connected' = w.radio_connected
    /\ socket_pool' = w.socket_pool
    /\ wifi_consecutive_failures' = w.consecutive_failures
    /\ mqtt_error_count' = w.mqtt_error_count
    /\ last_network_reset' = w.last_network_reset
    /\ SetSM(w.sm)
    /\ now' = w.now

InitWifi ==
    /\ radio_connected = FALSE
    /\ socket_pool = FALSE
    /\ wifi_consecutive_failures = 0
    /\ mqtt_error_count = 0
    /\ last_network_reset = 0

\* _handle_failure
handle_failure(w) ==
    LET n == w.consecutive_failures + 1
    IN  [w EXCEPT !.consecutive_failures = n,
                  !.socket_pool = FALSE,
                  !.sm = update_component_health(@, "wifi",
                           IF n > max_wifi_degraded_failures THEN "failed" ELSE "degraded",
                           "Connection failed")]

\* _try_network: joined is wifi.radio.connected after wifi.radio.connect
try_network(w, joined) ==
    IF joined
    THEN [w EXCEPT !.radio_connected = TRUE,
                   !.socket_pool = TRUE,
                   !.consecutive_failures = 0,
                   !.mqtt_error_count = 0,
                   !.sm = update_component_health(@, "wifi", "healthy", None)]
    ELSE [w EXCEPT !.radio_connected = FALSE]

\* connect: the primary network (no backup is configured), else the failure
connect(w, joined) ==
    IF joined THEN try_network(w, joined) ELSE handle_failure(try_network(w, joined))

\* disconnect
disconnect(w) == [w EXCEPT !.radio_connected = FALSE, !.socket_pool = FALSE]

\* force_reconnect
force_reconnect(w, joined) ==
    connect([disconnect(w) EXCEPT !.now = @ + force_reconnect_sleep], joined)

\* _check_recovery_trigger that ignores the cooldown
check_recovery_trigger_no_cooldown(w, rssi, current_time, joined) ==
    LET w1 == [w EXCEPT !.sm.alerts = add_alert(@, <<"Auto-recovery">>, "warning"),
                        !.last_network_reset = current_time,
                        !.forced = TRUE]
        w2 == force_reconnect(w1, joined)
    IN  IF joined THEN [w2 EXCEPT !.mqtt_error_count = 0] ELSE w2

\* _check_recovery_trigger
check_recovery_trigger(w, rssi, current_time, joined) ==
    IF current_time - w.last_network_reset < recovery_cooldown
    THEN w
    ELSE LET w1 == [w EXCEPT !.sm.alerts = add_alert(@, <<"Auto-recovery">>, "warning"),
                             !.last_network_reset = current_time,
                             !.forced = TRUE]
             w2 == force_reconnect(w1, joined)
         IN  IF joined THEN [w2 EXCEPT !.mqtt_error_count = 0] ELSE w2

\* report_mqtt_error: "if rssi" is false for None and for 0
report_mqtt_error(w, rssi, joined) ==
    LET w1 == [w EXCEPT !.mqtt_error_count = @ + 1]
    IN  IF /\ rssi.ap /\ rssi.v # 0
           /\ rssi.v <= recovery_rssi_threshold
           /\ w1.mqtt_error_count >= recovery_mqtt_threshold
        THEN check_recovery_trigger(w1, rssi, w.now, joined)
        ELSE w1

\* what a call on the WiFi manager did
WifiDid(op, rssi, w) == [op |-> op, rssi |-> rssi, forced |-> w.forced]

\* code.py startup: wifi_manager.connect(), once, before the main loop
WifiConnect(joined) ==
    /\ pc = "startup"
    /\ LET w == connect(WF, joined)
       IN  /\ SetWF(w)
           /\ last' = WifiDid("connect", NoApInfo, w)
    /\ pc' = "cycle"
    /\ UNCHANGED <<time_steps, client, last_connection_attempt, connection_attempts,
                   successful_connections, consecutive_failures, message_queue,
                   last_send_attempt, messages_sent, messages_queued,
                   messages_dropped, error_32_count, submitted, delivered, burst, i2cVars, extVars>>

\* report_mqtt_error(), with what the environment answers: the signal
\* strength read from the radio (none without an access point) and whether
\* the forced reconnection joins the network
ReportMqttError(rssi, joined) ==
    /\ pc = "cycle"
    /\ mqtt_error_count < MaxErrorCount
    /\ rssi.ap => radio_connected
    /\ LET w == report_mqtt_error(WF, rssi, joined)
       IN  /\ SetWF(w)
           /\ last' = WifiDid("report_mqtt_error", rssi, w)
    /\ UNCHANGED <<pc, time_steps, client, last_connection_attempt, connection_attempts,
                   successful_connections, consecutive_failures, message_queue,
                   last_send_attempt, messages_sent, messages_queued,
                   messages_dropped, error_32_count, submitted, delivered, burst, i2cVars, extVars>>

\* the environment: the radio loses its access point
RadioLoss ==
    /\ pc = "cycle"
    /\ radio_connected
    /\ radio_connected' = FALSE
    /\ last' = WifiDid("env", NoApInfo, WF)
    /\ UNCHANGED <<smVars, pc, mqttVars, socket_pool, wifi_consecutive_failures,
                   mqtt_error_count, last_network_reset, i2cVars, extVars>>

----------------------------------------------------------------------------
(* I2CSafeWrapper *)

(* I2CSafeWrapper.__init__ settings, in ticks of 0.1 s *)
default_timeout == 20
min_reset_interval == 100

\* _execute_with_timeout sleeps 0.1 s before a retry
attempt_sleep == 1

\* _handle_timeout: every 3rd timeout considers a reset
reset_every == 3

\* _attempt_i2c_reset sleeps 0.5 s after the unlock, 1 s after deinit()
unlock_sleep == 5
deinit_sleep == 10

\* check_i2c_health scans with a timeout of 1 s
health_timeout == 10

\* safe_read_sensor calls made in a behaviour
MaxReads == 5

\* How an accessor behaves over the calls made to it in one operation: its
\* first `raises` calls raise an exception of kind `kind` after d ticks
\* each; the next call ends as `final` says after d ticks: it returns
\* `value`, returns None, or never returns ("blocks").
Accessor(raises, kind, d, final, value) ==
    [raises |-> raises, kind |-> kind, d |-> d, final |-> final, value |-> value]

\* raises on every call the wrapper can make
Always == default_timeout

\* sensor.read_ph and the like, as the wrapper's read_function
AccessorBehaviours ==
    { Accessor(0, "none", 0, "value", 7),
      Accessor(0, "none", 0, "None", 0),
      Accessor(Always, "I2C", 0, "value", 7),
      Accessor(Always, "other", 1, "value", 7),
      Accessor(0, "none", 0, "blocks", 0) }

\* scan_function of safe_i2c_scan: it spins until try_lock() succeeds, then
\* returns the list of devices (here: how many); scan() may raise; with a
\* lock that is never released the spin has no exit
ScanBehaviours ==
    { Accessor(0, "none", 1, "value", 2),
      Accessor(0, "none", 0, "value", 0),
      Accessor(Always, "I2C", 0, "value", 0),
      Accessor(0, "none", 0, "blocks", 0) }

\* What the bus does during a reset: try_lock() returns True ("ok"), returns
\* False ("busy") or raises; deinit() and busio.I2C() succeed or raise.
BusReset(soft, hard) == [soft |-> soft, hard |-> hard]
ResetBehaviours ==
    { BusReset("ok", "ok"), BusReset("busy", "ok"), BusReset("raises", "ok"),
      BusReset("busy", "deinit_raises"), BusReset("busy", "create_raises") }

\* The wrapper's fields (with the state manager and the clock) as one
\* record; reset reports what the call's _attempt_i2c_reset did ("none":
\* not called)
I2 == [i2c |-> i2c,
       total_operations |-> total_operations,
       failed_operations |-> failed_operations,
       timeouts |-> timeouts,
       resets |-> resets,
       last_reset_time |-> last_reset_time,
       sm |-> SM, now |-> now, reset |-> "none"]

SetI2(w) ==
    /\ i2c' = w.i2c
    /\ total_operations' = w.total_operations
    /\ failed_operations' = w.failed_operations
    /\ timeouts' = w.timeouts
    /\ resets' = w.resets
    /\ last_reset_time' = w.last_reset_time
    /\ SetSM(w.sm)
    /\ now' = w.now

InitI2C ==
    /\ i2c = "bus"
    /\ total_operations = 0
    /\ failed_operations = 0
    /\ timeouts = 0
    /\ resets = 0
    /\ last_reset_time = 0
    /\ reads = 0

\* max(1, int(timeout * 10)), the timeout counted in ticks
max_attempts(timeout) == IF timeout > 1 THEN timeout ELSE 1

\* what _execute_with_timeout ends with
Executed(returned, res, value, calls, elapsed, late, error) ==
    [returned |-> returned, raised |-> FALSE, res |-> res, value |-> value,
     calls |-> calls, elapsed |-> elapsed, late |-> late, error |-> error]

\* the for loop of _execute_with_timeout after `attempt` calls of the
\* function, `elapsed` ticks after start_time; late: some call began when
\* the elapsed time had already reached the timeout
RECURSIVE AttemptLoop(_, _, _, _, _)
AttemptLoop(b, timeout, attempt, elapsed, late) ==
    IF attempt >= max_attempts(timeout)
    THEN Executed(TRUE, "None", 0, attempt, elapsed, late, b.kind)
    ELSE LET begun_late == late \/ elapsed >= timeout
         IN  IF attempt < b.raises
             THEN LET e == elapsed + b.d
                  IN  IF e >= timeout
                      THEN Executed(TRUE, "None", 0, attempt + 1, e, begun_late, b.kind)
                      ELSE AttemptLoop(b, timeout, attempt + 1, e + attempt_sleep,
                                       begun_late)
             ELSE CASE b.final = "blocks" ->
                         Executed(FALSE, "None", 0, attempt + 1, elapsed, begun_late, "none")
                    [] b.final = "None" ->
                         Executed(TRUE, "None", 0, attempt + 1, elapsed + b.d,
                                  begun_late, "none")
                    [] OTHER ->
                         Executed(TRUE, "value", b.value, attempt + 1, elapsed + b.d,
                                  begun_late, "none")

\* _execute_with_timeout: every exception of the function is caught here
execute_with_timeout(b, timeout) == AttemptLoop(b, timeout, 0, 0, FALSE)

\* _attempt_i2c_reset that is not rate limited
attempt_i2c_reset_unlimited(w, rb) ==
    LET w1 == [w EXCEPT !.last_reset_time = w.now, !.resets = @ + 1]
    IN  IF rb.soft = "ok"
        THEN [w1 EXCEPT !.now = @ + unlock_sleep, !.reset = "soft"]
        ELSE CASE rb.hard = "ok" ->
                    [w1 EXCEPT !.now = @ + deinit_sleep,
                               !.i2c = "recreated",
                               !.sm.alerts = add_alert(@, <<"I2C bus reset successful">>,
                                                       "info"),
                               !.reset = "hard_ok"]
               [] rb.hard = "create_raises" ->
                    [w1 EXCEPT !.now = @ + deinit_sleep,
                               !.i2c = "deinitialized",
                               !.sm.alerts = add_alert(@, <<"I2C reset failed">>, "critical"),
                               !.reset = "hard_failed"]
               [] OTHER ->
                    [w1 EXCEPT !.sm.alerts = add_alert(@, <<"I2C reset failed">>, "critical"),
                               !.reset = "hard_failed"]

\* _attempt_i2c_reset: rate limit, soft unlock, else deinit and recreate
attempt_i2c_reset(w, rb) ==
    IF w.now - w.last_reset_time < min_reset_interval
    THEN [w EXCEPT !.reset = "limited"]
    ELSE LET w1 == [w EXCEPT !.last_reset_time = w.now, !.resets = @ + 1]
         IN  IF rb.soft = "ok"
             THEN [w1 EXCEPT !.now = @ + unlock_sleep, !.reset = "soft"]
             ELSE CASE rb.hard = "ok" ->
                         [w1 EXCEPT !.now = @ + deinit_sleep,
                                    !.i2c = "recreated",
                                    !.sm.alerts = add_alert(@, <<"I2C bus reset successful">>,
                                                            "info"),
                                    !.reset = "hard_ok"]
                    [] rb.hard = "create_raises" ->
                         [w1 EXCEPT !.now = @ + deinit_sleep,
                                    !.i2c = "deinitialized",
                                    !.sm.alerts = add_alert(@, <<"I2C reset failed">>,
                                                            "critical"),
                                    !.reset = "hard_failed"]
                    [] OTHER ->
                         [w1 EXCEPT !.sm.alerts = add_alert(@, <<"I2C reset failed">>,
                                                            "critical"),
                                    !.reset = "hard_failed"]

\* _handle_timeout that considers a reset on every 2nd timeout
handle_timeout_every_2nd(w, sensor_name, rb) ==
    LET w1 == [w EXCEPT !.timeouts = @ + 1,
                        !.sm.alerts = add_alert(@, <<sensor_name, "timeout">>, "warning")]
    IN  IF w1.timeouts % 2 = 0 THEN attempt_i2c_reset(w1, rb) ELSE w1

\* _handle_timeout
handle_timeout(w, sensor_name, rb) ==
    LET w1 == [w EXCEPT !.timeouts = @ + 1,
                        !.sm.alerts = add_alert(@, <<sensor_name, "timeout">>, "warning")]
    IN  IF w1.timeouts % reset_every = 0 THEN attempt_i2c_reset(w1, rb) ELSE w1

\* _handle_i2c_error
handle_i2c_error(w, sensor_name, rb) ==
    attempt_i2c_reset(
        [w EXCEPT !.sm.alerts = add_alert(@, <<sensor_name, "I2C error">>, "warning")],
        rb)

\* what a call on the wrapper did: whether it returned, what it returned,
\* and what its _execute_with_timeout and _attempt_i2c_reset did
I2CDid(op, ret, r, w, rb) ==
    [op |-> op, returned |-> r.returned, ret |-> ret, res |-> r.res, calls |-> r.calls,
     elapsed |-> r.elapsed, late |-> r.late, error |-> r.error,
     reset |-> w.reset, soft |-> rb.soft]

\* safe_read_sensor with the default timeout
safe_read_sensor(w, b, sensor_name, timeout, rb) ==
    LET w1 == [w EXCEPT !.total_operations = @ + 1]
        r  == execute_with_timeout(b, timeout)
        w2 == [w1 EXCEPT !.now = @ + r.elapsed]
    IN  IF ~r.returned
        THEN [w |-> w2, ret |-> "None", r |-> r]
        ELSE IF r.raised
        THEN LET w3 == [w2 EXCEPT !.failed_operations = @ + 1]
             IN  [w |-> IF r.error = "I2C" THEN handle_i2c_error(w3, sensor_name, rb)
                        ELSE w3,
                  ret |-> "None", r |-> r]
        ELSE IF r.res # "None"
        THEN [w |-> w2, ret |-> "value", r |-> r]
        ELSE [w |-> handle_timeout(w2, sensor_name, rb), ret |-> "None", r |-> r]

\* safe_i2c_scan: the devices found, [] after a timeout or an error
safe_i2c_scan(w, b, timeout, rb) ==
    LET r  == execute_with_timeout(b, timeout)
        w1 == [w EXCEPT !.now = @ + r.elapsed]
    IN  IF ~r.returned
        THEN [w |-> w1, devices |-> 0, r |-> r]
        ELSE IF r.raised
        THEN [w |-> handle_i2c_error(w1, "I2C_scan", rb), devices |-> 0, r |-> r]
        ELSE IF r.res # "None"
        THEN [w |-> w1, devices |-> r.value, r |-> r]
        ELSE [w |-> handle_timeout(w1, "I2C_scan", rb), devices |-> 0, r |-> r]

\* check_i2c_health: len(devices) > 0
check_i2c_health(w, b, rb) ==
    LET s == safe_i2c_scan(w, b, health_timeout, rb)
    IN  [w |-> s.w, devices |-> s.devices, r |-> s.r,
         ret |-> IF s.devices > 0 THEN "True" ELSE "False"]

\* startup: i2c_safe.check_i2c_health(), with how the bus behaves during the
\* scan and during a reset; a scan that never returns leaves the program
\* inside the call
CheckI2CHealth(b, rb) ==
    /\ pc = "startup"
    /\ \E c \in {check_i2c_health(I2, b, rb)} :
           /\ SetI2(c.w)
           /\ last' = I2CDid("check_i2c_health", c.ret, c.r, c.w, rb)
                         @@ [devices |-> c.devices]
           /\ pc' = IF c.r.returned THEN "cycle" ELSE "blocked"
    /\ UNCHANGED <<time_steps, mqttFields, wifiVars, reads, extVars>>

\* a sample of the main loop: i2c_safe.safe_read_sensor(read_function, name)
SafeReadSensor(b, rb) ==
    /\ pc = "cycle"
    /\ reads < MaxReads
    /\ \E c \in {safe_read_sensor(I2, b, "pH_robust_sample", default_timeout, rb)} :
           /\ SetI2(c.w)
           /\ last' = I2CDid("safe_read_sensor", c.ret, c.r, c.w, rb)
           /\ pc' = IF c.r.returned THEN "cycle" ELSE "blocked"
    /\ reads' = reads + 1
    /\ UNCHANGED <<time_steps, mqttFields, wifiVars, extVars>>

----------------------------------------------------------------------------
(* Robust measurements: sample values are in tenths of the sensor's unit *)

\* RobustMeasurementBase.__init__ and the subclasses: sample_delay, in ticks
sample_delay == 3

\* Bounds of the measurement specifications: the length of an accessor's
\* repeating answers, and the largest sample_count asked for
MaxScript == 3
MaxSamples == 5

\* What one call of the sensor accessor does: it raises, or it returns a
\* value, bare or as the first element of a (value, source) tuple.  A value
\* is a finite float, a float that is NaN or infinite, or None.
Float(v) == [type |-> "float", v |-> v]
NaN == [type |-> "nan", v |-> 0]
NoneValue == [type |-> "NoneType", v |-> 0]
Answer(raises, tuple, value, source) ==
    [raises |-> raises, tuple |-> tuple, value |-> value, source |-> source]
Returns(value) == Answer(FALSE, FALSE, value, None)
ReturnsTuple(value, source) == Answer(FALSE, TRUE, value, source)
Raises == Answer(TRUE, FALSE, NoneValue, None)

Answers ==
    {Returns(Float(70)), Returns(Float(71)), Returns(Float(200)),
     Returns(NaN), Returns(NoneValue), Raises,
     ReturnsTuple(Float(70), "rtd"), ReturnsTuple(NoneValue, "read_error")}

\* The accessor answers its calls with these, over and over
Scripts == UNION {[1..n -> Answers] : n \in 1..MaxScript}

\* The ten samples 7.0 (nine times) and 20.0
ScenarioSamples == [i \in 1..10 |-> Returns(Float(IF i < 10 THEN 70 ELSE 200))]

\* sensor_function(), on its call number i
CallSensor(f, i) == f[((i - 1) % Len(f)) + 1]

\* the validation of a value that skips the NaN / infinity test
valid_sample_any_float(value) == value.type \in {"float", "nan"}

\* isinstance(value, (int, float)) and not math.isnan(value) and not
\* math.isinf(value)
valid_sample(value) == value.type = "float"

\* _collect_samples: one accessor call per iteration; the valid values, the
\* number of errors noted, the number of calls made and the time slept
RECURSIVE CollectLoop(_, _, _, _)
CollectLoop(n, f, i, acc) ==
    IF i >= n THEN acc
    ELSE LET sample == CallSensor(f, acc.calls + 1)
             called == [acc EXCEPT !.calls = @ + 1]
             delay  == IF i < n - 1 THEN sample_delay ELSE 0
         IN  IF sample.raises
             THEN CollectLoop(n, f, i + 1,
                      [called EXCEPT !.errors = @ + 1, !.slept = @ + delay])
             ELSE IF ~sample.tuple /\ sample.value.type = "NoneType"
             THEN CollectLoop(n, f, i + 1, called)
             ELSE IF valid_sample(sample.value)
             THEN CollectLoop(n, f, i + 1,
                      [called EXCEPT !.samples = Append(@, sample.value.v),
                                     !.slept = @ + delay])
             ELSE CollectLoop(n, f, i + 1,
                      [called EXCEPT !.errors = @ + 1, !.slept = @ + delay])

collect_samples(n, f, calls) ==
    CollectLoop(n, f, 0, [samples |-> <<>>, errors |-> 0, calls |-> calls, slept |-> 0])

\* sorted()
RECURSIVE Insert(_, _)
Insert(s, x) ==
    IF s = <<>> THEN <<x>>
    ELSE IF x <= Head(s) THEN <<x>> \o s
    ELSE <<Head(s)>> \o Insert(Tail(s), x)

RECURSIVE sorted(_)
sorted(s) == IF s = <<>> THEN <<>> ELSE Insert(sorted(Tail(s)), Head(s))

Abs(x) == IF x < 0 THEN 0 - x ELSE x

\* the median of the samples, times two (the mean of the two middle ones
\* for an even count)
Median2(samples) ==
    LET s == sorted(samples)
        n == Len(s)
    IN  IF n % 2 = 1 THEN 2 * s[(n \div 2) + 1]
        ELSE s[n \div 2] + s[(n \div 2) + 1]

\* the median absolute deviation as the code takes it, times two:
\* sorted(deviations)[len(deviations) // 2]
Mad2(samples) ==
    LET deviations == [i \in 1..Len(samples) |-> Abs(2 * samples[i] - Median2(samples))]
    IN  IF deviations = <<>> THEN 0
        ELSE sorted(deviations)[(Len(deviations) \div 2) + 1]

\* abs(0.6745 * (sample - median) / mad) <= 3.5
WithinThreshold(sample, median2, mad2) ==
    6745 * Abs(2 * sample - median2) <= 35000 * mad2

\* int(len(samples) * 0.3)
max_outliers(n) == (3 * n) \div 10

\* the filter that does not look at the MAD being 0
KeptOf_mad0(samples, median2, mad2) ==
    SelectSeq(samples, LAMBDA x : WithinThreshold(x, median2, mad2))

\* the samples the filter keeps: all of them when the MAD is 0
KeptOf(samples, median2, mad2) ==
    SelectSeq(samples, LAMBDA x : mad2 = 0 \/ WithinThreshold(x, median2, mad2))

Kept(samples) == KeptOf(samples, Median2(samples), Mad2(samples))

\* the filter's outcome without the 30 % guard
guard_outliers_off(samples, filtered) ==
    [samples |-> filtered, outliers_removed |-> Len(samples) - Len(filtered)]

\* the guard that gives up the count of a too large rejection, not the
\* rejection
guard_outliers_uncounted(samples, filtered) ==
    [samples |-> filtered,
     outliers_removed |-> IF Len(samples) - Len(filtered) > max_outliers(Len(samples))
                          THEN 0 ELSE Len(samples) - Len(filtered)]

\* "Ensure we don't remove too many samples": a filter that removed more
\* than max_outliers is given up, the original samples are kept
guard_outliers(samples, filtered) ==
    IF Len(samples) - Len(filtered) > max_outliers(Len(samples))
    THEN [samples |-> samples, outliers_removed |-> 0]
    ELSE [samples |-> filtered, outliers_removed |-> Len(samples) - Len(filtered)]

\* _remove_outliers: the modified z-score filter on three samples or more
remove_outliers(samples) ==
    IF Len(samples) < 3 THEN [samples |-> samples, outliers_removed |-> 0]
    ELSE guard_outliers(samples, Kept(samples))

\* Sum of a sequence of numbers
RECURSIVE SumSeq(_)
SumSeq(s) == IF s = <<>> THEN 0 ELSE Head(s) + SumSeq(Tail(s))

\* A value in tenths whose float is the value itself (7.0, 20.0, 0.5), unlike
\* 7.1, which a binary float only approximates
BinaryExact(v) == v % 5 = 0

\* sum(raw_samples) / n of n equal floats x gives x back when n <= 2 or when
\* the sums are exact; otherwise it depends on the bits of x whether the
\* rounded sum divides back to x (7.1 three times: no; five times: yes)
Roundings == {"exact", "rounded"}

MeanReproduces(samples, rounding) ==
    \/ Len(samples) <= 2
    \/ \A i \in 1..Len(samples) : BinaryExact(samples[i])
    \/ rounding = "exact"

\* t_critical of _calculate_statistics, in thousandths; the confidence
\* interval of n > 1 samples is mean -/+ t_critical * std_dev / sqrt(n), that
\* of one sample is (mean, mean)
t_critical(n) == IF n <= 3 THEN 2000 ELSE IF n <= 5 THEN 2776 ELSE 2000

\* MeasurementResult of a non-empty sample list.  mean is sum / sample_count;
\* the variance is var_num / var_den (in tenths squared), so that
\* std_dev < 0.1 unit is var_num < var_den, std_dev < 0.05 is 4 var_num < var_den;
\* std_dev_zero tells whether std_dev is the float 0.0.  is_stable is the
\* "auto-detect" rule of _calculate_statistics (no _measurement_type yet).
MeasurementResult(samples, outliers_removed, rounding) ==
    LET n == Len(samples)
        s == SumSeq(samples)
        var_num == SumSeq([i \in 1..n |-> (n * samples[i] - s) * (n * samples[i] - s)])
        var_den == n * n * (n - 1)
        identical == \A i \in 1..n : samples[i] = samples[1]
        like_temperature == s # 0 /\ 150 * n < s /\ s < 500 * n
        like_ph == s # 0 /\ 0 < s /\ s < 140 * n
    IN  [is_none |-> FALSE,
         raw_samples |-> samples,
         outliers_removed |-> outliers_removed,
         sample_count |-> n,
         sum |-> s,
         var_num |-> IF n > 1 THEN var_num ELSE 0,
         var_den |-> IF n > 1 THEN var_den ELSE 1,
         std_dev_zero |-> n <= 1 \/ (identical /\ MeanReproduces(samples, rounding)),
         t_critical |-> IF n > 1 THEN t_critical(n) ELSE 0,
         is_stable |-> IF n <= 1 THEN TRUE
                       ELSE IF like_temperature THEN var_num < var_den
                       ELSE IF like_ph THEN 4 * var_num < var_den
                       ELSE var_num < var_den]

\* take_measurement returning None
NoMeasurement ==
    [is_none |-> TRUE, raw_samples |-> <<>>, outliers_removed |-> 0, sample_count |-> 0,
     sum |-> 0, var_num |-> 0, var_den |-> 1, std_dev_zero |-> FALSE, t_critical |-> 0,
     is_stable |-> FALSE]

\* A robust measurement object after __init__ (noise_reduction_history is
\* read by get_statistics only and is left out)
NewRobust == [is_none |-> FALSE, total_measurements |-> 0, successful_measurements |-> 0,
              last_measurement_time |-> 0]

\* What a take_measurement call did: the object, the result, the accessor
\* calls made so far, the time spent sleeping, the valid samples collected
Measured(rm, result, c) ==
    [rm |-> rm, result |-> result, raised |-> FALSE, calls |-> c.calls, slept |-> c.slept,
     collected |-> c.samples]

\* the end of take_measurement: a stable result counts as a success
Counted(rm, c, result) ==
    Measured([rm EXCEPT !.successful_measurements = IF result.is_stable THEN @ + 1 ELSE @],
             result, c)

\* take_measurement after the outlier removal: None for fewer than 2 samples
AfterRemoval(rm, c, filtered, rounding) ==
    IF Len(filtered.samples) < 2 THEN Measured(rm, NoMeasurement, c)
    ELSE Counted(rm, c,
                 MeasurementResult(filtered.samples, filtered.outliers_removed, rounding))

\* take_measurement after the collection c: None for fewer than 2 samples
AfterCollection(rm, c, rounding) ==
    IF Len(c.samples) < 2 THEN Measured(rm, NoMeasurement, c)
    ELSE AfterRemoval(rm, c, remove_outliers(c.samples), rounding)

\* RobustMeasurementBase.take_measurement: nothing inside its try block
\* raises for these accessors (each accessor call has its own handler), so
\* its except branch is not taken
base_take_measurement(rm, n, f, calls, rounding) ==
    AfterCollection([rm EXCEPT !.total_measurements = @ + 1, !.last_measurement_time = now],
                    collect_samples(n, f, calls), rounding)

\* The stability thresholds the subclasses apply to a result
StableAs(kind, result) ==
    IF kind = "ph" THEN 4 * result.var_num < result.var_den
    ELSE result.var_num < result.var_den

\* RobustTemperatureMeasurement.take_measurement (kind "temperature") and
\* RobustpHMeasurement.take_measurement (kind "ph"): the base measurement,
\* then is_stable set again with the threshold of the kind
Restabilised(kind, m) ==
    IF m.result.is_none THEN m
    ELSE [m EXCEPT !.result.is_stable = StableAs(kind, m.result)]

take_measurement(kind, rm, n, f, calls, rounding) ==
    Restabilised(kind, base_take_measurement(rm, n, f, calls, rounding))

----------------------------------------------------------------------------
(* MeasurementManager: robust measurement, single read, nominal value *)

\* MeasurementManager.__init__: the sample counts of the two measurements
temp_sample_count == 5
ph_sample_count == 10

\* read_temperature's "ultimate fallback", 39.0, in tenths
fallback_temp == 390

\* A robust object that was not created (temp_robust / ph_robust is None)
NoRobust == [is_none |-> TRUE, total_measurements |-> 0, successful_measurements |-> 0,
             last_measurement_time |-> 0]

\* MeasurementManager.__init__
NewMeasurementManager ==
    [enable_robust |-> TRUE, temp_robust |-> NoRobust, ph_robust |-> NoRobust,
     total_temp_readings |-> 0, total_ph_readings |-> 0,
     robust_temp_success |-> 0, robust_ph_success |-> 0]

\* StateManager() followed by MeasurementManager.__init__, which registers
\* the component
NewStateManager ==
    [state |-> STARTING, components |-> EmptyDict, alerts |-> <<>>, readings |-> EmptyDict]
ManagerRegistered == register_component(NewStateManager, "measurement_manager")

\* initialize_robust_measurements: both objects are created, or the import
\* fails and robust measurements are switched off
initialize_robust_measurements(mm, sm, import_ok) ==
    IF ~mm.enable_robust
    THEN [mm |-> mm, ret |-> FALSE,
          sm |-> update_component_health(sm, "measurement_manager", "degraded", "Disabled")]
    ELSE IF import_ok
    THEN [mm |-> [mm EXCEPT !.temp_robust = NewRobust, !.ph_robust = NewRobust],
          ret |-> TRUE,
          sm |-> update_component_health(sm, "measurement_manager", "healthy", None)]
    ELSE [mm |-> [mm EXCEPT !.enable_robust = FALSE], ret |-> FALSE,
          sm |-> update_component_health(sm, "measurement_manager", "degraded",
                                         "Module unavailable")]

\* floor of the square root
Isqrt(x) == CHOOSE r \in 0..x : r * r <= x /\ x < (r + 1) * (r + 1)

\* std_dev of a stable result, in hundredths of a tenth (rounded down)
StdDev(result) == Isqrt((10000 * result.var_num) \div result.var_den)

\* confidence_interval[1] - confidence_interval[0] = 2 t std_dev / sqrt(n), in
\* the same unit; t * t is 4 for n <= 3 or n > 5 and 2.776 * 2.776 otherwise
ConfidenceWidth(result) ==
    LET n  == result.sample_count
        t2 == IF n <= 3 THEN 4000 ELSE IF n <= 5 THEN 7706 ELSE 4000
    IN  Isqrt((40 * t2 * result.var_num) \div (result.var_den * n))

\* A number a read returns: num / den tenths, a NaN, or None
Value(type, num, den) == [type |-> type, num |-> num, den |-> den]
NoValue == Value("NoneType", 0, 1)
OfSample(v) == Value(v.type, v.v, 1)

\* What a read_temperature / read_ph call did and returned
ReadResult(mm, sm, raised, value, source, method, calls, slept, robust) ==
    [mm |-> mm, sm |-> sm, raised |-> raised, value |-> value, source |-> source,
     method |-> method, calls |-> calls, slept |-> slept, robust |-> robust]

\* the robust tier that uses every result, stable or not
TierOf_unstable(kind, mm, sm, m) ==
    LET used == ~m.raised /\ ~m.result.is_none
    IN  [tried |-> TRUE, used |-> used, m |-> m,
         mm |-> IF kind = "ph" THEN [mm EXCEPT !.ph_robust = m.rm]
                ELSE [mm EXCEPT !.temp_robust = m.rm],
         sm |-> sm]

\* the robust tier of read_temperature / read_ph after its measurement m: for
\* a stable result the success is counted and the two quality readings are
\* stored in the state manager
TierOf(kind, mm, sm, m) ==
    LET used == ~m.raised /\ ~m.result.is_none /\ m.result.is_stable
        std  == IF kind = "ph" THEN "ph_std_dev" ELSE "temp_std_dev"
        wid  == IF kind = "ph" THEN "ph_confidence_width" ELSE "temp_confidence_width"
    IN  [tried |-> TRUE, used |-> used, m |-> m,
         mm |-> IF kind = "ph"
                THEN [mm EXCEPT !.ph_robust = m.rm,
                                !.robust_ph_success = IF used THEN @ + 1 ELSE @]
                ELSE [mm EXCEPT !.temp_robust = m.rm,
                                !.robust_temp_success = IF used THEN @ + 1 ELSE @],
         sm |-> IF used
                THEN update_reading_at(
                         update_reading_at(sm, std, Num(StdDev(m.result)), now + m.slept),
                         wid, Num(ConfidenceWidth(m.result)), now + m.slept)
                ELSE sm]

\* the robust tier was skipped: robust measurements are off or not set up
NoRobustTier(mm, sm) ==
    [tried |-> FALSE, used |-> FALSE,
     m |-> [rm |-> NoRobust, result |-> NoMeasurement, raised |-> FALSE, calls |-> 0,
            slept |-> 0, collected |-> <<>>],
     mm |-> mm, sm |-> sm]

\* "if self.enable_robust and self.temp_robust:" (or ph_robust), then the
\* measurement with the sample count of the kind
RobustTier(kind, mm, sm, f, rounding) ==
    IF kind = "ph"
    THEN IF mm.enable_robust /\ ~mm.ph_robust.is_none
         THEN TierOf(kind, mm, sm,
                     take_measurement(kind, mm.ph_robust, ph_sample_count, f, 0, rounding))
         ELSE NoRobustTier(mm, sm)
    ELSE IF mm.enable_robust /\ ~mm.temp_robust.is_none
         THEN TierOf(kind, mm, sm,
                     take_measurement(kind, mm.temp_robust, temp_sample_count, f, 0, rounding))
         ELSE NoRobustTier(mm, sm)

\* the value a stable robust result is returned with
RobustRead(t) ==
    ReadResult(t.mm, t.sm, FALSE, Value("float", t.m.result.sum, t.m.result.sample_count),
               <<"robust">>, "robust", t.m.calls, t.m.slept, t.m.result)

\* the single read of read_temperature: (temp_c, temp_source) = a raises
\* for a result that is not a tuple, and formatting temp_c with :.1f raises
\* for None
SingleTemperatureRaises(a) == a.raises \/ ~a.tuple \/ a.value.type = "NoneType"

\* read_temperature after its robust tier t, with no exception handler
\* around the single read
temperature_tiers_unguarded(t, a) ==
    IF t.used THEN RobustRead(t)
    ELSE IF SingleTemperatureRaises(a)
    THEN ReadResult(t.mm, t.sm, TRUE, NoValue, <<"None">>, "None",
                    t.m.calls + 1, t.m.slept, t.m.result)
    ELSE ReadResult(t.mm, t.sm, FALSE, OfSample(a.value), <<a.source, "_single">>,
                    "single_reading", t.m.calls + 1, t.m.slept, t.m.result)

\* read_temperature after its robust tier t: the robust mean when that is
\* stable; else the answer a of one more accessor call, tagged as single;
\* else, from the handler of the single read, the nominal value
temperature_tiers(t, a) ==
    IF t.used THEN RobustRead(t)
    ELSE IF SingleTemperatureRaises(a)
    THEN ReadResult(t.mm, t.sm, FALSE, Value("float", fallback_temp, 1), <<"fallback">>,
                    "fallback", t.m.calls + 1, t.m.slept, t.m.result)
    ELSE ReadResult(t.mm, t.sm, FALSE, OfSample(a.value), <<a.source, "_single">>,
                    "single_reading", t.m.calls + 1, t.m.slept, t.m.result)

\* the accessor call that follows the robust tier t
NextAnswer(t, f) == CallSensor(f, t.m.calls + 1)

\* MeasurementManager.read_temperature
ReadTemperatureAfter(t, f) == temperature_tiers(t, NextAnswer(t, f))

read_temperature(mm, sm, f, rounding) ==
    ReadTemperatureAfter(
        RobustTier("temperature", [mm EXCEPT !.total_temp_readings = @ + 1], sm, f, rounding),
        f)

\* read_ph after its robust tier t: the robust mean when that is stable;
\* else the answer a of one more accessor call when it is an int or a
\* float; else None with the source "error" (also from the handler of a
\* raising accessor)
ph_tiers(t, a) ==
    IF t.used THEN RobustRead(t)
    ELSE IF ~a.raises /\ ~a.tuple /\ a.value.type \in {"float", "nan"}
    THEN ReadResult(t.mm, t.sm, FALSE, OfSample(a.value), <<"single">>,
                    "single_reading", t.m.calls + 1, t.m.slept, t.m.result)
    ELSE ReadResult(t.mm, t.sm, FALSE, NoValue, <<"error">>, "single_reading",
                    t.m.calls + 1, t.m.slept, t.m.result)

ReadPhAfter(t, f) == ph_tiers(t, NextAnswer(t, f))

\* MeasurementManager.read_ph
read_ph(mm, sm, f, rounding) ==
    ReadPhAfter(RobustTier("ph", [mm EXCEPT !.total_ph_readings = @ + 1], sm, f, rounding), f)

\* The manager and the accessor before any measurement is set up
InitMeasurement ==
    /\ sensor_function = <<>>
    /\ sample_count = 0
    /\ measurement_manager = NewMeasurementManager

\* system_init: measurement_manager.initialize_robust_measurements(...)
InitializeRobustMeasurements(import_ok) ==
    /\ pc = "startup"
    /\ \E r \in {initialize_robust_measurements(measurement_manager, SM, import_ok)} :
           /\ measurement_manager' = r.mm
           /\ SetSM(r.sm)
           /\ last' = [op |-> "initialize_robust_measurements", raised |-> FALSE,
                       ret |-> r.ret]
    /\ pc' = "cycle"
    /\ UNCHANGED <<now, time_steps, mqttFields, wifiVars, i2cVars, sensor_function,
                   sample_count, time_manager, sync_attempt, watchdog>>

\* A call of take_measurement(sample_count) on one of the two robust objects
TakeMeasurement(kind, rounding) ==
    /\ pc = "cycle"
    /\ ~(IF kind = "ph" THEN measurement_manager.ph_robust
         ELSE measurement_manager.temp_robust).is_none
    /\ LET obj == IF kind = "ph" THEN measurement_manager.ph_robust
                  ELSE measurement_manager.temp_robust
       IN  \E m \in {take_measurement(kind, obj, sample_count, sensor_function, 0, rounding)} :
               /\ measurement_manager' =
                      IF kind = "ph" THEN [measurement_manager EXCEPT !.ph_robust = m.rm]
                      ELSE [measurement_manager EXCEPT !.temp_robust = m.rm]
               /\ now' = now + m.slept
               /\ last' = [op |-> "take_measurement", kind |-> kind, raised |-> m.raised,
                           result |-> m.result, calls |-> m.calls,
                           collected |-> m.collected, rounding |-> rounding]
    /\ pc' = "done"
    /\ UNCHANGED <<smVars, time_steps, mqttFields, wifiVars, i2cVars, sensor_function,
                   sample_count, time_manager, sync_attempt, watchdog>>

\* What a call of the manager leaves in last
ReadDid(op, r, rounding) ==
    [op |-> op, raised |-> r.raised, value |-> r.value, source |-> r.source,
     method |-> r.method, calls |-> r.calls, result |-> r.robust, rounding |-> rounding]

\* measurement_manager.read_temperature(), as the sensor cycle calls it
ReadTemperature(rounding) ==
    /\ pc = "cycle"
    /\ \E r \in {read_temperature(measurement_manager, SM, sensor_function, rounding)} :
           /\ measurement_manager' = r.mm
           /\ SetSM(r.sm)
           /\ now' = now + r.slept
           /\ last' = ReadDid("read_temperature", r, rounding)
    /\ pc' = "done"
    /\ UNCHANGED <<time_steps, mqttFields, wifiVars, i2cVars, sensor_function,
                   sample_count, time_manager, sync_attempt, watchdog>>

\* measurement_manager.read_ph()
ReadPh(rounding) ==
    /\ pc = "cycle"
    /\ \E r \in {read_ph(measurement_manager, SM, sensor_function, rounding)} :
           /\ measurement_manager' = r.mm
           /\ SetSM(r.sm)
           /\ now' = now + r.slept
           /\ last' = ReadDid("read_ph", r, rounding)
    /\ pc' = "done"
    /\ UNCHANGED <<time_steps, mqttFields, wifiVars, i2cVars, sensor_function,
                   sample_count, time_manager, sync_attempt, watchdog>>

----------------------------------------------------------------------------
(* TimeManager: scheduled NTP synchronisation *)

\* TimeManager.__init__ timing, in ticks of 0.1 s
sync_interval == 36000
failed_sync_retry == 3000
startup_sync_timeout == 200
normal_sync_timeout == 100

\* update(): more than 3 consecutive failures report "failed"
max_time_degraded_failures == 3

\* len(self.ntp_servers)
ntp_server_count == 4

\* Bound of the time specification: sync attempts made
MaxSyncAttempts == 4

\* is_time_valid: 24 hours without a successful sync
max_drift_seconds == 864000

\* _validate_ntp_time: the accepted range, 2020-01-01 to 2050-01-01
\* (1577836800 to 2524608000), here in seconds since 2020-01-01
min_ntp_time == 0
max_ntp_time == 946771200

\* What the NTP exchange does: it delivers a time at once (a timestamp, or a
\* value time.mktime raises for), or every ntp_client.datetime raises until
\* the timeout has run out
Ntp(kind, ts) == [kind |-> kind, ts |-> ts]
NtpTimestamps == {min_ntp_time - 1, min_ntp_time, max_ntp_time, max_ntp_time + 1}
NtpBehaviours ==
    {Ntp("time", ts) : ts \in NtpTimestamps} \cup {Ntp("malformed", 0), Ntp("timeout", 0)}

\* TimeManager.__init__; last_sync_time 0 stands for None (both are "not set"
\* to should_sync_time and is_time_valid; force_sync stores 0).  rtc is
\* rtc.RTC().datetime as far as the manager has set it
NewTimeManager ==
    [last_sync_time |-> 0, last_sync_success |-> FALSE, sync_attempts |-> 0,
     successful_syncs |-> 0, consecutive_failures |-> 0, current_server_index |-> 0,
     rtc |-> <<>>]

\* _rotate_ntp_server without the wrap to the first server
rotate_ntp_server_unwrapped(tm) ==
    [tm EXCEPT !.current_server_index = @ + 1]

\* _rotate_ntp_server
rotate_ntp_server(tm) ==
    [tm EXCEPT !.current_server_index = (@ + 1) % ntp_server_count]

\* _validate_ntp_time with no upper limit
validate_ntp_time_no_ceiling(ntp) ==
    ntp.kind = "time" /\ ~(ntp.ts < min_ntp_time)

\* _validate_ntp_time: False for a value mktime raises for, for a time
\* before 2020 and for a time after 2050 (a large drift is only logged)
validate_ntp_time(ntp) ==
    ntp.kind = "time" /\ ~(ntp.ts < min_ntp_time) /\ ~(ntp.ts > max_ntp_time)

\* The outcome of _sync_time_now: the manager, (success, error), and the
\* time.monotonic() at which it returned
Synced(tm, success, error, at) == [tm |-> tm, success |-> success, error |-> error, at |-> at]

\* _sync_time_now: without WiFi (is_connected() false, or no socket pool,
\* which get_socket_pool gives exactly when is_connected() holds) it returns
\* at once; a validated time sets the RTC and records last_sync_time; a
\* timeout or an invalid time rotates the server and leaves both as they were
sync_time_now(tm, wifi, ntp, timeout) ==
    LET counted == [tm EXCEPT !.sync_attempts = @ + 1]
        done    == IF ntp.kind = "timeout" THEN now + timeout ELSE now
        server  == tm.current_server_index
    IN  IF ~wifi THEN Synced(counted, FALSE, "No WiFi connection", now)
        ELSE IF ntp.kind # "timeout" /\ validate_ntp_time(ntp)
        THEN Synced([counted EXCEPT !.rtc = <<ntp.ts>>,
                                    !.last_sync_time = done,
                                    !.last_sync_success = TRUE,
                                    !.successful_syncs = @ + 1,
                                    !.consecutive_failures = 0],
                    TRUE, None, done)
        ELSE Synced([rotate_ntp_server(counted) EXCEPT !.last_sync_success = FALSE,
                                                       !.consecutive_failures = @ + 1],
                    FALSE,
                    <<"Sync failed", server,
                      IF ntp.kind = "timeout" THEN "Timeout" ELSE "Invalid time">>,
                    done)

\* should_sync_time, at time t
should_sync_time(tm, t) ==
    IF tm.last_sync_time = 0 THEN TRUE
    ELSE IF ~tm.last_sync_success THEN t - tm.last_sync_time >= failed_sync_retry
    ELSE t - tm.last_sync_time >= sync_interval

\* is_time_valid that still holds at exactly max_drift_seconds
is_time_valid_le(tm, t) ==
    tm.last_sync_time # 0 /\ t - tm.last_sync_time <= max_drift_seconds

\* is_time_valid, at time t
is_time_valid(tm, t) ==
    tm.last_sync_time # 0 /\ t - tm.last_sync_time < max_drift_seconds

\* What a call of the time manager did
TimeCall(tm, sm, attempted, success, at) ==
    [tm |-> tm, sm |-> sm, attempted |-> attempted, success |-> success, at |-> at]

\* TimeManager.initialize
time_initialize(tm, sm, wifi, ntp) ==
    IF ~wifi
    THEN TimeCall(tm, update_component_health(sm, "time", "degraded", "No WiFi connection"),
                  FALSE, FALSE, now)
    ELSE LET s == sync_time_now(tm, wifi, ntp, startup_sync_timeout)
         IN  IF s.success
             THEN TimeCall(s.tm, update_component_health(sm, "time", "healthy", None),
                           TRUE, TRUE, s.at)
             ELSE TimeCall(s.tm, update_component_health(sm, "time", "degraded", s.error),
                           TRUE, FALSE, s.at)

\* TimeManager.update
time_update(tm, sm, wifi, ntp) ==
    IF wifi /\ should_sync_time(tm, now)
    THEN LET s == sync_time_now(tm, wifi, ntp, normal_sync_timeout)
             health == IF s.tm.consecutive_failures > max_time_degraded_failures
                       THEN "failed" ELSE "degraded"
         IN  IF s.success
             THEN TimeCall(s.tm, update_component_health(sm, "time", "healthy", None),
                           TRUE, TRUE, s.at)
             ELSE TimeCall(s.tm, update_component_health(sm, "time", health, s.error),
                           TRUE, FALSE, s.at)
    ELSE TimeCall(tm, sm, FALSE, FALSE, now)

\* TimeManager.force_sync: last_sync_time is cleared before the attempt, and
\* the state manager is not told the outcome
force_sync(tm, sm, wifi, ntp) ==
    IF ~wifi THEN TimeCall(tm, sm, FALSE, FALSE, now)
    ELSE LET s == sync_time_now([tm EXCEPT !.last_sync_time = 0], wifi, ntp,
                                startup_sync_timeout)
         IN  TimeCall(s.tm, sm, TRUE, s.success, s.at)

\* TimeManager.get_status at time t: the fields computed from the manager and
\* the monotonic clock (time_since_sync None is -1; the strings formatted
\* from time.localtime() are left out, uptime is in ticks since boot)
time_get_status(tm, t) ==
    [time_valid |-> is_time_valid(tm, t),
     last_sync_success |-> tm.last_sync_success,
     time_since_sync |-> IF tm.last_sync_time # 0 THEN t - tm.last_sync_time ELSE -1,
     next_sync_in |->
         IF tm.last_sync_time = 0 THEN 0
         ELSE LET left == (IF tm.last_sync_success THEN sync_interval
                           ELSE failed_sync_retry) - (t - tm.last_sync_time)
              IN  IF left > 0 THEN left ELSE 0,
     sync_attempts |-> tm.sync_attempts,
     successful_syncs |-> tm.successful_syncs,
     consecutive_failures |-> tm.consecutive_failures,
     success_rate |-> IF tm.sync_attempts > 0
                      THEN (1000 * tm.successful_syncs) \div tm.sync_attempts ELSE 0,
     current_server |-> tm.current_server_index,
     uptime |-> (t - BootTicks) \div 10,
     should_sync_now |-> should_sync_time(tm, t)]

\* The last sync attempt (made, success, the time it returned) and the time
\* the last successful one returned (0: none yet)
NoSyncAttempt == [made |-> FALSE, success |-> FALSE, at |-> 0, success_at |-> 0]

Attempt(c) ==
    IF c.attempted
    THEN [made |-> TRUE, success |-> c.success, at |-> c.at,
          success_at |-> IF c.success THEN c.at ELSE sync_attempt.success_at]
    ELSE sync_attempt

InitTime ==
    /\ time_manager = NewTimeManager
    /\ sync_attempt = NoSyncAttempt

\* What a call leaves in last
TimeDid(op, c, ntp) ==
    [op |-> op, attempted |-> c.attempted, success |-> c.success, ntp |-> ntp]

\* code.py startup: time_manager.initialize()
TimeInitialize(wifi, ntp) ==
    /\ pc = "startup"
    /\ \E c \in {time_initialize(time_manager, SM, wifi, ntp)} :
           /\ time_manager' = c.tm
           /\ SetSM(c.sm)
           /\ now' = c.at
           /\ sync_attempt' = Attempt(c)
           /\ last' = TimeDid("initialize", c, ntp)
    /\ pc' = "cycle"
    /\ UNCHANGED <<time_steps, mqttFields, wifiVars, i2cVars, sensor_function,
                   sample_count, measurement_manager, watchdog>>

\* the main loop: time_manager.update()
TimeUpdate(wifi, ntp) ==
    /\ pc = "cycle"
    /\ time_manager.sync_attempts < MaxSyncAttempts
    /\ \E c \in {time_update(time_manager, SM, wifi, ntp)} :
           /\ time_manager' = c.tm
           /\ SetSM(c.sm)
           /\ now' = c.at
           /\ sync_attempt' = Attempt(c)
           /\ last' = TimeDid("update", c, ntp)
    /\ UNCHANGED <<pc, time_steps, mqttFields, wifiVars, i2cVars, sensor_function,
                   sample_count, measurement_manager, watchdog>>

\* time_manager.force_sync()
ForceSync(wifi, ntp) ==
    /\ pc = "cycle"
    /\ time_manager.sync_attempts < MaxSyncAttempts
    /\ \E c \in {force_sync(time_manager, SM, wifi, ntp)} :
           /\ time_manager' = c.tm
           /\ now' = c.at
           /\ sync_attempt' = Attempt(c)
           /\ last' = TimeDid("force_sync", c, ntp)
    /\ UNCHANGED <<smVars, pc, time_steps, mqttFields, wifiVars, i2cVars, sensor_function,
                   sample_count, measurement_manager, watchdog>>

\* time_manager.is_time_valid()
IsTimeValid ==
    /\ pc = "cycle"
    /\ last' = [op |-> "is_time_valid", attempted |-> FALSE, success |-> FALSE,
                ntp |-> Ntp("none", 0), ret |-> is_time_valid(time_manager, now)]
    /\ UNCHANGED <<smVars, pc, now, time_steps, mqttFields, wifiVars, i2cVars, extVars>>

----------------------------------------------------------------------------
(* Status snapshots: StateManager.get_status, MQTTManager.get_status,
   TimeManager.get_status and I2CSafeWrapper.get_stats.  None of them assigns
   a field; each reads time.monotonic().  (TimeManager.get_status also
   returns the RTC's local time as text and the timezone; the RTC is not
   modelled beyond the value it was set to.) *)

\* the timestamp of the oldest message of a non-empty queue
RECURSIVE OldestTimestamp(_)
OldestTimestamp(q) ==
    IF Len(q) = 1 THEN q[1].timestamp
    ELSE LET t == OldestTimestamp(Tail(q))
         IN  IF q[1].timestamp <= t THEN q[1].timestamp ELSE t

\* MQTTManager.get_status (success_rate in tenths of a percent)
mqtt_get_status(m) ==
    [connected |-> is_connected(m),
     connection_attempts |-> m.connection_attempts,
     successful_connections |-> m.successful_connections,
     consecutive_failures |-> m.consecutive_failures,
     success_rate |-> IF m.connection_attempts > 0
                      THEN (1000 * m.successful_connections) \div m.connection_attempts
                      ELSE 0,
     messages_sent |-> m.messages_sent,
     messages_queued |-> Len(m.message_queue),
     messages_dropped |-> m.messages_dropped,
     queue_age |-> IF m.message_queue # <<>>
                   THEN m.now - OldestTimestamp(m.message_queue) ELSE 0,
     last_attempt |-> m.now - m.last_connection_attempt,
     next_attempt_in |->
         LET left == reconnect_interval - (m.now - m.last_connection_attempt)
         IN  IF left > 0 THEN left ELSE 0,
     error_32_count |-> m.error_32_count]

\* get_stats that reports the successes per second of uptime as the rate
get_stats_rate_per_uptime(w) ==
    [total_operations |-> w.total_operations,
     failed_operations |-> w.failed_operations,
     timeouts |-> w.timeouts,
     resets |-> w.resets,
     success_rate |-> IF w.total_operations > 0
                      THEN (1000 * (w.total_operations - w.failed_operations))
                               \div w.now
                      ELSE 0,
     last_reset_age |-> IF w.last_reset_time # 0
                        THEN <<w.now - w.last_reset_time>> ELSE <<>>]

\* I2CSafeWrapper.get_stats (success_rate in tenths of a percent;
\* last_reset_age <<>> for None)
get_stats(w) ==
    [total_operations |-> w.total_operations,
     failed_operations |-> w.failed_operations,
     timeouts |-> w.timeouts,
     resets |-> w.resets,
     success_rate |-> IF w.total_operations > 0
                      THEN (1000 * (w.total_operations - w.failed_operations))
                               \div w.total_operations
                      ELSE 0,
     last_reset_age |-> IF w.last_reset_time # 0
                        THEN <<w.now - w.last_reset_time>> ELSE <<>>]

\* what each snapshot returns in the current state
StateSnapshot == get_status(SM)
MqttSnapshot  == mqtt_get_status(MQ)
TimeSnapshot  == time_get_status(time_manager, now)
BusSnapshot   == get_stats(I2)

\* A snapshot is taken d ticks after the previous call returned; again: the
\* previous call was the same snapshot
Elapse(d) ==
    /\ pc = "cycle"
    /\ d > 0 => time_steps < MaxTimeSteps
    /\ now' = now + d
    /\ time_steps' = IF d > 0 THEN time_steps + 1 ELSE time_steps
    /\ UNCHANGED <<smVars, pc, mqttFields, wifiVars, i2cVars, extVars>>

Snapshot(op, d, out) == [op |-> op, d |-> d, again |-> last.op = op, out |-> out]

\* state_manager.get_status()
GetStatus(d) ==
    /\ Elapse(d)
    /\ last' = Snapshot("StateManager.get_status", d, StateSnapshot')

\* mqtt_manager.get_status()
MqttGetStatus(d) ==
    /\ Elapse(d)
    /\ last' = Snapshot("MQTTManager.get_status", d, MqttSnapshot')

\* time_manager.get_status()
TimeGetStatus(d) ==
    /\ Elapse(d)
    /\ last' = Snapshot("TimeManager.get_status", d, TimeSnapshot')

\* i2c_safe.get_stats()
GetStats(d) ==
    /\ Elapse(d)
    /\ last' = Snapshot("I2CSafeWrapper.get_stats", d, BusSnapshot')

----------------------------------------------------------------------------
vars == <<state, components, alerts, readings, pc, last, mqttVars, wifiVars, i2cVars,
          extVars>>

InitHealth ==
    /\ InitSM
    /\ pc = "startup"
    /\ last = Call("init", None, None, None)
    /\ InitMQTT
    /\ InitWifi
    /\ InitI2C
    /\ InitMeasurement
    /\ InitTime
    /\ InitWatchdog

NextHealth ==
    \/ \E n \in ComponentNames : RegisterComponent(n)
    \/ \E n \in ComponentNames, h \in HealthArgs, e \in ErrorArgs :
          UpdateComponentHealth(n, h, e)
    \/ \E c \in ReadingCalls : UpdateReading(c[1], c[2])
    \/ ForceOperational
    \/ LoopEnter
    \/ LoopExit
    \/ CycleEnd

SpecHealth == InitHealth /\ [][NextHealth]_vars

\* The delivery specification: the state after StateManager() and
\* MQTTManager() are constructed, then calls on the MQTT manager in any order
InitDelivery ==
    /\ state = STARTING
    /\ components = [n \in {"mqtt"} |-> 2]
    /\ alerts = <<>>
    /\ readings = EmptyDict
    /\ pc = "cycle"
    /\ last = [op |-> "init", ret |-> None, pub |-> None, drained |-> FALSE, failed |-> 0,
               attempt |-> "none"]
    /\ InitMQTT
    /\ InitWifi
    /\ InitI2C
    /\ InitMeasurement
    /\ InitTime
    /\ InitWatchdog

NextDelivery ==
    \/ \E ok \in BOOLEAN : SendReading(ok)
    \/ \E ok1 \in BOOLEAN, ok2 \in BOOLEAN : SendReadings(ok1, ok2)
    \/ \E wifi \in BOOLEAN, c \in ConnectResults,
          oks \in [1..Len(message_queue) -> BOOLEAN] : Update(wifi, c, oks)
    \/ \E d \in TimeSteps : Advance(d)
    \/ LinkLoss

SpecDelivery == InitDelivery /\ [][NextDelivery]_vars

\* The connection specification: the managers are constructed, startup calls
\* initialize(), then the loop calls update() and sends readings while time
\* passes in steps around the reconnect interval
BackoffSteps == {drain_sleep, reconnect_interval - drain_sleep}

\* Readings submitted in a behaviour of the connection specification
ConnSubmitted == 1

InitConnection ==
    /\ state = STARTING
    /\ components = [n \in {"mqtt"} |-> 2]
    /\ alerts = <<>>
    /\ readings = EmptyDict
    /\ pc = "startup"
    /\ last = [op |-> "init", ret |-> None, pub |-> None, drained |-> FALSE, failed |-> 0,
               attempt |-> "none"]
    /\ InitMQTT
    /\ InitWifi
    /\ InitI2C
    /\ InitMeasurement
    /\ InitTime
    /\ InitWatchdog

NextConnection ==
    \/ \E wifi \in BOOLEAN, c \in ConnectResults : Initialize(wifi, c, <<>>)
    \/ \E ok \in BOOLEAN : submitted < ConnSubmitted /\ SendReading(ok)
    \/ \E wifi \in BOOLEAN, c \in ConnectResults,
          oks \in [1..Len(message_queue) -> BOOLEAN] : Update(wifi, c, oks)
    \/ \E d \in BackoffSteps : Advance(d)
    \/ LinkLoss

SpecConnection == InitConnection /\ [][NextConnection]_vars

\* The recovery specification: the managers are constructed, startup calls
\* connect(), then MQTT errors are reported while the signal varies and
\* time passes in steps around the cooldown
InitRecovery ==
    /\ state = STARTING
    /\ components = [n \in {"wifi"} |-> 2]
    /\ alerts = <<>>
    /\ readings = EmptyDict
    /\ pc = "startup"
    /\ last = [op |-> "init", rssi |-> NoApInfo, forced |-> FALSE]
    /\ InitMQTT
    /\ InitWifi
    /\ InitI2C
    /\ InitMeasurement
    /\ InitTime
    /\ InitWatchdog

NextRecovery ==
    \/ \E joined \in BOOLEAN : WifiConnect(joined)
    \/ \E rssi \in RssiValues, joined \in BOOLEAN : ReportMqttError(rssi, joined)
    \/ RadioLoss
    \/ \E d \in RecoverySteps : Advance(d)

SpecRecovery == InitRecovery /\ [][NextRecovery]_vars

\* The heartbeat specification: the loop sends the system status and calls
\* update() while the connection comes and goes
NextHeartbeat ==
    \/ \E ok \in BOOLEAN : SendSystemStatus(ok)
    \/ \E wifi \in BOOLEAN, c \in ConnectResults,
          oks \in [1..Len(message_queue) -> BOOLEAN] : Update(wifi, c, oks)
    \/ Advance(send_interval)
    \/ LinkLoss

SpecHeartbeat == InitDelivery /\ [][NextHeartbeat]_vars

\* The bus specification: the wrapper is constructed, startup checks the
\* health of the bus, then the loop reads a sensor through the wrapper while
\* time passes between the reads
I2CSteps == {min_reset_interval}

InitBus ==
    /\ state = STARTING
    /\ components = [n \in {"i2c"} |-> 2]
    /\ alerts = <<>>
    /\ readings = EmptyDict
    /\ pc = "startup"
    /\ last = [op |-> "init"]
    /\ InitMQTT
    /\ InitWifi
    /\ InitI2C
    /\ InitMeasurement
    /\ InitTime
    /\ InitWatchdog

NextBus ==
    \/ \E b \in ScanBehaviours, rb \in ResetBehaviours : CheckI2CHealth(b, rb)
    \/ \E b \in AccessorBehaviours, rb \in ResetBehaviours : SafeReadSensor(b, rb)
    \/ \E d \in I2CSteps : Advance(d)

SpecBus == InitBus /\ [][NextBus]_vars

\* The measurement specification: a robust object of each kind, an accessor
\* and a sample count; one measurement is taken
MeasurementInputs ==
    (Scripts \X (0..MaxSamples)) \cup {<<ScenarioSamples, Len(ScenarioSamples)>>}

InitMeasure ==
    /\ SetupSM(initialize_robust_measurements(NewMeasurementManager, ManagerRegistered,
                                              TRUE).sm)
    /\ pc = "cycle"
    /\ last = [op |-> "init", raised |-> FALSE]
    /\ InitMQTT
    /\ InitWifi
    /\ InitI2C
    /\ InitTime
    /\ InitWatchdog
    /\ measurement_manager =
           initialize_robust_measurements(NewMeasurementManager, ManagerRegistered, TRUE).mm
    /\ \E in \in MeasurementInputs :
           /\ sensor_function = in[1]
           /\ sample_count = in[2]

NextMeasure ==
    \E kind \in {"temperature", "ph"}, rounding \in Roundings : TakeMeasurement(kind, rounding)

SpecMeasure == InitMeasure /\ [][NextMeasure]_vars

\* The fallback specification: the manager is constructed, then the robust
\* measurements are initialised, then one reading is taken, through the
\* manager or from the temperature object itself
InitTiers ==
    /\ SetupSM(ManagerRegistered)
    /\ pc = "startup"
    /\ last = [op |-> "init", raised |-> FALSE]
    /\ InitMQTT
    /\ InitWifi
    /\ InitI2C
    /\ InitTime
    /\ InitWatchdog
    /\ measurement_manager = NewMeasurementManager
    /\ \E f \in Scripts : sensor_function = f
    /\ sample_count = temp_sample_count

NextTiers ==
    \/ \E import_ok \in BOOLEAN : InitializeRobustMeasurements(import_ok)
    \/ \E rounding \in Roundings : TakeMeasurement("temperature", rounding)
    \/ \E rounding \in Roundings : ReadTemperature(rounding)
    \/ \E rounding \in Roundings : ReadPh(rounding)

SpecTiers == InitTiers /\ [][NextTiers]_vars

\* The time specification: the managers are constructed, initialize() runs
\* once, then the loop calls update() while time passes
SyncSteps == {failed_sync_retry, sync_interval - failed_sync_retry}

InitSync ==
    /\ SetupSM(register_component(NewStateManager, "time"))
    /\ pc = "startup"
    /\ last = [op |-> "init", attempted |-> FALSE, success |-> FALSE, ntp |-> Ntp("none", 0)]
    /\ InitMQTT
    /\ InitWifi
    /\ InitI2C
    /\ InitMeasurement
    /\ InitTime
    /\ InitWatchdog

NextTime ==
    \/ \E wifi \in BOOLEAN, ntp \in NtpBehaviours : TimeInitialize(wifi, ntp)
    \/ \E wifi \in BOOLEAN, ntp \in NtpBehaviours : TimeUpdate(wifi, ntp)
    \/ \E d \in SyncSteps : Advance(d)

SpecTime == InitSync /\ [][NextTime]_vars

----------------------------------------------------------------------------
(* The clock specification: the time manager is initialised, then updated,
   forced to sync and asked for the validity of the time while up to a day
   passes *)
ClockSteps == {sync_interval, max_drift_seconds - sync_interval}

\* the NTP exchange delivers a valid time or one after 2050
ClockNtp == {Ntp("time", min_ntp_time), Ntp("time", max_ntp_time + 1)}

NextClock ==
    \/ \E wifi \in BOOLEAN, ntp \in ClockNtp : TimeInitialize(wifi, ntp)
    \/ \E wifi \in BOOLEAN, ntp \in ClockNtp : TimeUpdate(wifi, ntp)
    \/ \E wifi \in BOOLEAN, ntp \in ClockNtp : ForceSync(wifi, ntp)
    \/ IsTimeValid
    \/ \E d \in ClockSteps : Advance(d)

SpecClock == InitSync /\ [][NextClock]_vars

----------------------------------------------------------------------------
(* The components specification: components are registered and report their
   health, in any order *)
InitComponents ==
    /\ InitSM
    /\ pc = "cycle"
    /\ last = Call("init", None, None, None)
    /\ InitMQTT
    /\ InitWifi
    /\ InitI2C
    /\ InitMeasurement
    /\ InitTime
    /\ InitWatchdog

NextComponents ==
    \/ \E n \in ComponentNames : RegisterComponent(n)
    \/ \E n \in ComponentNames, h \in HealthArgs : ReportHealth(n, h, None)

SpecComponents == InitComponents /\ [][NextComponents]_vars

----------------------------------------------------------------------------
(* The alerts specification: alerts are raised directly and through health
   reports and temperature readings, in any order and number *)
DirectAlerts == {<<<<"WiFi disconnected">>, "critical">>,
                 <<<<"Temperature outlier">>, "warning">>}

AlertingReadings == {Num(temp_critical), Num(temp_warning - 1)}

InitAlerts ==
    /\ InitSM
    /\ pc = "cycle"
    /\ last = Call("init", None, None, None)
    /\ InitMQTT
    /\ InitWifi
    /\ InitI2C
    /\ InitMeasurement
    /\ InitTime
    /\ InitWatchdog

NextAlerts ==
    \/ \E a \in DirectAlerts : AddAlert(a[1], a[2])
    \/ \E error \in {None, "Disconnected"} : ReportHealth("wifi", "failed", error)
    \/ \E value \in AlertingReadings : ReportReading("temperature", value)

SpecAlerts == InitAlerts /\ [][NextAlerts]_vars

----------------------------------------------------------------------------
(* The readings specification: readings are stored and asked for while time
   passes *)
StoredReadings == ReadingCalls \cup {<<"ph", Num(70)>>}

ReadingSteps == {default_max_age, 1}

InitReadings ==
    /\ InitSM
    /\ pc = "cycle"
    /\ last = Call("init", None, None, None)
    /\ InitMQTT
    /\ InitWifi
    /\ InitI2C
    /\ InitMeasurement
    /\ InitTime
    /\ InitWatchdog

NextReadings ==
    \/ \E c \in StoredReadings : UpdateReading(c[1], c[2])
    \/ \E sensor \in {"temperature", "ph"}, max_age \in {default_max_age, status_max_age} :
          GetReading(sensor, max_age)
    \/ \E d \in ReadingSteps : Advance(d)

SpecReadings == InitReadings /\ [][NextReadings]_vars

----------------------------------------------------------------------------
(* The status specification: the main loop stores readings, sends them,
   updates the time manager and reads a sensor, and takes status snapshots
   in between, at once or after the stored temperature has become too old
   for get_status *)
StatusReadings == {Num(temp_critical)}

StatusAccessors == {Accessor(0, "none", 0, "value", 7),
                    Accessor(Always, "I2C", 0, "value", 7)}

StatusDelays == {0, status_max_age + 1}

\* calls of each mutating operation in a behaviour
MaxStatusCalls == 1

NextStatus ==
    \/ \E v \in StatusReadings :
          /\ "temperature" \notin DOMAIN readings
          /\ ReportReading("temperature", v)
    \/ /\ submitted < MaxStatusCalls
       /\ SendReading(TRUE)
    \/ /\ time_manager.sync_attempts < MaxStatusCalls
       /\ TimeUpdate(TRUE, Ntp("time", min_ntp_time))
    \/ \E b \in StatusAccessors :
          /\ reads < MaxStatusCalls
          /\ SafeReadSensor(b, BusReset("ok", "ok"))
    \/ \E d \in StatusDelays : GetStatus(d)
    \/ \E d \in StatusDelays : MqttGetStatus(d)
    \/ \E d \in StatusDelays : TimeGetStatus(d)
    \/ \E d \in StatusDelays : GetStats(d)

SpecStatus == InitComponents /\ [][NextStatus]_vars

----------------------------------------------------------------------------
(* The watchdog specification: a state manager with or without a watchdog;
   the main loop stores temperature readings and health reports, reads a
   sensor through the I2C wrapper and feeds the watchdog *)
InitFeeding ==
    /\ InitSM
    /\ pc = "cycle"
    /\ last = Call("init", None, None, None)
    /\ InitMQTT
    /\ InitWifi
    /\ InitI2C
    /\ InitMeasurement
    /\ InitTime
    /\ \E present \in BOOLEAN : watchdog = Watchdog(present)

NextFeeding ==
    \/ \E v \in AlertingReadings : UpdateReading("temperature", v)
    \/ \E h \in {"healthy", "failed"} : ReportHealth("i2c", h, None)
    \/ \E b \in StatusAccessors : SafeReadSensor(b, BusReset("ok", "ok"))
    \/ \E feed_raises \in BOOLEAN : FeedWatchdog(feed_raises)

SpecFeeding == InitFeeding /\ [][NextFeeding]_vars

----------------------------------------------------------------------------
(* Properties of the health state machine *)

\* the most recently recorded temperature reading is at or above critical
TempReadingCritical ==
    /\ "temperature" \in DOMAIN readings
    /\ readings["temperature"].value.isnum
    /\ readings["temperature"].value.v >= temp_critical

TempFailed == "temperature" \in DOMAIN components /\ components["temperature"] = 2

\* C1: whenever the temperature component is Failed, the system state is
\* Critical and should_continue() is false.
C1_FailedTemperatureIsCritical ==
    TempFailed => (state = CRITICAL /\ ~should_continue(state))

\* C2: right after update_reading("temperature", v) with v >= temp_critical
\* the state is Critical, the newest alert is a critical one and
\* should_continue() is false, whatever the component healths are.
C2_CriticalReadingStops ==
    (last.op = "update_reading" /\ last.a = "temperature" /\ TempReadingCritical)
        => /\ state = CRITICAL
           /\ alerts # <<>>
           /\ alerts[Len(alerts)].sev = "critical"
           /\ ~should_continue(state)

\* C2 witness: a critical reading (108) arrived while every component was healthy
C2_Witness ==
    /\ last.op = "update_reading" /\ last.a = "temperature"
    /\ "temperature" \in DOMAIN readings /\ readings["temperature"].value = Num(108)
    /\ DOMAIN components = ComponentNames
    /\ \A n \in ComponentNames : components[n] = 0
    /\ state = CRITICAL

\* C3: while the latest temperature reading is critical, no
\* update_component_health call takes the state out of Critical.
C3_OverrideSurvivesHealthReports ==
    [][(TempReadingCritical /\ state = CRITICAL
          /\ last'.op = "update_component_health") => state' = CRITICAL]_vars

\* C4: the loop begins a cycle only when the state is not Critical, leaves
\* only when it is Critical, and runs no cycle after it has left.
C4_LoopGatedByShouldContinue ==
    [][/\ (pc = "top" /\ pc' = "cycle") => state # CRITICAL
       /\ (pc = "top" /\ pc' = "halted") => state = CRITICAL
       /\ pc = "halted" => pc' = "halted"
       /\ (pc # "cycle" /\ pc' = "cycle") => pc = "top"]_vars

\* C4 witness: the loop test failed on a Critical state and the loop was left
C4_Witness ==
    /\ pc = "halted" /\ state = CRITICAL
    /\ last.op = "should_continue" /\ last.a = "False"

\* C5: with no critical temperature reading, after every
\* update_component_health call the state is the recompute rule applied to
\* the component table.
C5_StateIsRecomputeRule ==
    (last.op = "update_component_health" /\ ~TempReadingCritical)
        => state = update_system_state(components)

----------------------------------------------------------------------------
(* Properties of the delivery manager *)

Range(f) == {f[i] : i \in DOMAIN f}

Max(a, b) == IF a >= b THEN a ELSE b

\* the values the broker received in this step
NewlyDelivered == SubSeq(delivered', Len(delivered) + 1, Len(delivered'))

\* C6: the queue never holds more than max_queue_size messages; after n
\* messages were queued with no drain in between it holds the last
\* min(n, max_queue_size) of them in their order, and messages_dropped grew
\* by the excess (M for n = K + M into an empty queue); a message is never
\* counted both as dropped and as sent.
C6_BoundedDropOldest ==
    LET n == Len(burst.values)
        K == max_queue_size
    IN  /\ Len(message_queue) <= K
        /\ Values(message_queue) = SubSeq(burst.values, Max(1, n - K + 1), n)
        /\ messages_dropped - burst.dropped = Max(0, n - K)
        /\ messages_sent + messages_dropped + Len(message_queue) <= submitted

\* C6 witness: K + 1 messages were queued while disconnected; the oldest
\* was dropped and the last K are held
C6_Witness ==
    /\ Len(burst.values) = max_queue_size + 1
    /\ burst.dropped = 0 /\ messages_dropped = 1
    /\ Len(message_queue) = max_queue_size
    /\ message_queue[1].value = 2
    /\ messages_sent = 0

\* a step in which _process_queue walked the queue and no publish failed
DrainedAllOk == last'.drained /\ last'.failed = 0 /\ client' = "up"

\* C7: a drain with no failing publish empties the queue; what it delivers
\* are messages of the queue in queue order; every message still at most
\* 300 s old when the drain ends is delivered and none that was older than
\* 300 s when it began.
C7_DrainDeliversFifo ==
    [][DrainedAllOk =>
         LET D == NewlyDelivered
             InD(m) == m.value \in Range(D)
         IN  /\ message_queue' = <<>>
             /\ D = Values(SelectSeq(message_queue, InD))
             /\ \A i \in 1..Len(message_queue) :
                   /\ (now' - message_queue[i].timestamp <= max_message_age)
                        => InD(message_queue[i])
                   /\ (now - message_queue[i].timestamp > max_message_age)
                        => ~InD(message_queue[i])
             /\ messages_sent' = messages_sent + Len(D)]_vars

\* C7 witness: the full queue [2, 3] (1 was dropped on overflow) was
\* delivered in that order on reconnection
C7_Witness ==
    /\ last.op = "update" /\ last.drained /\ last.failed = 0
    /\ delivered = <<2, 3>>
    /\ messages_dropped = 1
    /\ message_queue = <<>>
    /\ successful_connections = 1

\* C8: when a publish fails during a drain, the failed message and all after
\* it stay queued in their order and only delivered messages are counted.
C8_DrainStopsAtFailure ==
    [][(last'.drained /\ last'.failed # 0) =>
         /\ \E i \in 1..Len(message_queue) :
               /\ message_queue[i].value = last'.failed
               /\ message_queue' = SubSeq(message_queue, i, Len(message_queue))
         /\ messages_sent' - messages_sent = Len(NewlyDelivered)]_vars

\* C9: send_reading returns True exactly when it was connected, the send
\* interval had elapsed and the publish succeeded, and then counts one more
\* sent message; otherwise messages_sent is unchanged and the message is
\* appended to the queue.
C9_SendReadingResult ==
    [][last'.op = "send_reading" =>
         LET sent == /\ client = "up"
                     /\ now - last_send_attempt >= send_interval
                     /\ last'.pub = "ok"
         IN  /\ (last'.ret = "TRUE") <=> sent
             /\ sent => messages_sent' = messages_sent + 1
             /\ ~sent => /\ messages_sent' = messages_sent
                         /\ message_queue' # <<>>
                         /\ message_queue'[Len(message_queue')].value = submitted + 1]_vars

\* C10: no message is delivered while an earlier submitted one waits in the
\* queue: every queued message is younger than every delivered one.
C10_DeliveryInSubmissionOrder ==
    \A i \in 1..Len(delivered), j \in 1..Len(message_queue) :
        message_queue[j].value > delivered[i]

----------------------------------------------------------------------------
(* Properties of the connection state machine *)

\* C11: a successful connection attempt sets consecutive_failures to 0,
\* reports mqtt healthy and drains the queue in the same call; a failed
\* attempt adds exactly 1 to consecutive_failures, leaves client None and
\* leaves the queue as it was.
C11_AttemptOutcome ==
    [][/\ (last'.attempt = "ok") =>
            /\ consecutive_failures' = 0
            /\ components'["mqtt"] = health_map("healthy")
            /\ client' = "up"
            /\ (message_queue # <<>>) => (last'.drained /\ message_queue' = <<>>)
       /\ (last'.attempt = "failed") =>
            /\ consecutive_failures' = consecutive_failures + 1
            /\ client' = "None"
            /\ message_queue' = message_queue]_vars

\* C11 witness: after a failed attempt and a queued reading, a second attempt
\* succeeded and drained the queue
C11_Witness ==
    /\ last.op = "update" /\ last.attempt = "ok" /\ last.drained
    /\ connection_attempts = 2 /\ successful_connections = 1
    /\ consecutive_failures = 0
    /\ delivered # <<>>

\* C12: a call of update() makes a connection attempt only when the manager
\* is not connected, WiFi is connected and at least reconnect_interval has
\* passed since the previous attempt (whose time last_connection_attempt
\* holds); it drains only when connected with a non-empty queue.
C12_UpdateGuards ==
    [][\A wifi \in BOOLEAN, c \in ConnectResults,
          oks \in [1..Len(message_queue) -> BOOLEAN] :
          Update(wifi, c, oks) =>
             /\ (last'.attempt # "none") =>
                  /\ client # "up"
                  /\ wifi
                  /\ now - last_connection_attempt >= reconnect_interval
                  /\ last_connection_attempt' = now
             /\ last'.drained => (client' = "up" /\ message_queue # <<>>)]_vars

\* C12 witness: update() was called inside the backoff interval after a
\* failed attempt and made no attempt
C12_Witness ==
    /\ last.op = "update" /\ last.attempt = "none"
    /\ client = "None" /\ consecutive_failures = 1 /\ connection_attempts = 1
    /\ now > last_connection_attempt
    /\ now - last_connection_attempt < reconnect_interval

----------------------------------------------------------------------------
(* Properties of the WiFi auto-recovery *)

\* C13: a call of report_mqtt_error forces a reconnect only if, at that
\* call, the error count including this error is at least
\* recovery_mqtt_threshold, the signal strength is known and at or below
\* recovery_rssi_threshold, and at least recovery_cooldown has passed since
\* the last forced reconnect (whose time last_network_reset holds).
C13_RecoveryOnlyWhenAllHold ==
    [][(last'.op = "report_mqtt_error" /\ last'.forced) =>
          /\ mqtt_error_count + 1 >= recovery_mqtt_threshold
          /\ last'.rssi.ap
          /\ last'.rssi.v <= recovery_rssi_threshold
          /\ now - last_network_reset >= recovery_cooldown
          /\ last_network_reset' = now]_vars

\* C13 witness: a report forced a reconnect for the second time, one
\* cooldown after the first
C13_Witness ==
    /\ last.op = "report_mqtt_error" /\ last.forced
    /\ last_network_reset >= 2 * recovery_cooldown

----------------------------------------------------------------------------
(* Properties of the status heartbeat *)

\* what the manager hands upward: the state the main loop tests with
\* should_continue(), and the health it reports for "mqtt"
FatalSignalled ==
    \/ ~should_continue(state)
    \/ components["mqtt"] = health_map("failed")

\* every status message so far failed to reach the broker, and there were
\* at least 5 (the fatal threshold) of them
HeartbeatFailuresAtThreshold ==
    /\ last.op = "send_system_status"
    /\ submitted >= 5
    /\ delivered = <<>>

\* C14: once the consecutive send failures of the status message have
\* reached the fatal threshold (5), the manager has signalled a fatal
\* condition to the main loop.
C14_FatalAtThreshold ==
    HeartbeatFailuresAtThreshold => FatalSignalled

----------------------------------------------------------------------------
(* Properties of the I2C safety wrapper *)

\* the call's _attempt_i2c_reset passed the rate limit and ran
ResetPerformed(did) == did.reset \in {"soft", "hard_ok", "hard_failed"}

\* C15: every safe_read_sensor call returns, with the accessor's value or
\* None, after at most max(1, int(timeout*10)) calls of the accessor, none
\* of them begun once the elapsed time had reached the timeout.
C15_ReadTerminatesInTime ==
    (last.op = "safe_read_sensor") =>
        /\ last.returned
        /\ last.ret \in {"value", "None"}
        /\ last.calls <= max_attempts(default_timeout)
        /\ ~last.late

\* C16: a safe_read_sensor call whose accessor failed with a bus-specific
\* error ("I2C") attempts a bus reset in that call, counts one more failed
\* operation and returns None.
C16_BusErrorEscalates ==
    [][(last'.op = "safe_read_sensor" /\ last'.returned /\ last'.error = "I2C") =>
          /\ last'.reset # "none"
          /\ failed_operations' = failed_operations + 1
          /\ last'.ret = "None"]_vars

\* C17: a safe_read_sensor call that ends in a timeout adds exactly 1 to
\* timeouts, and it attempts a bus reset exactly when the new count is a
\* multiple of 3; a call that ends with a value does neither.
C17_EveryThirdTimeout ==
    [][(last'.op = "safe_read_sensor" /\ last'.returned) =>
          IF last'.res = "None"
          THEN /\ timeouts' = timeouts + 1
               /\ (last'.reset # "none") <=> (timeouts' % reset_every = 0)
          ELSE /\ timeouts' = timeouts
               /\ last'.reset = "none"]_vars

\* C17 witness: the 3rd timeout, whose reset attempt ran, and a later 4th
\* or 5th timeout without one
C17_Witness ==
    /\ last.op = "safe_read_sensor" /\ last.res = "None"
    /\ timeouts \in {4, 5} /\ last.reset = "none"
    /\ resets = 1

\* C18: a performed reset (resets grows, by 1) begins at least
\* min_reset_interval after the previous one began, and records its time;
\* a reset asked for inside the interval changes neither resets nor
\* last_reset_time nor the bus handle.
C18_ResetsRateLimited ==
    [][/\ (resets' # resets) =>
            /\ resets' = resets + 1
            /\ last_reset_time' >= now
            /\ last_reset_time' - last_reset_time >= min_reset_interval
       /\ (last'.op \in {"safe_read_sensor", "check_i2c_health"}
             /\ last'.reset = "limited") =>
            /\ resets' = resets
            /\ last_reset_time' = last_reset_time
            /\ i2c' = i2c]_vars

\* C18 witness: a second reset was performed
C18_Witness ==
    /\ last.op = "safe_read_sensor" /\ ResetPerformed(last)
    /\ resets = 2
    /\ last_reset_time >= 2 * min_reset_interval

\* C19: a performed reset ends with the soft unlock exactly when the unlock
\* succeeded (the hard re-initialisation runs only otherwise), and its
\* outcome is the newest alert: info after a success, critical after a
\* failure.
C19_ResetOutcomeAlert ==
    [][(last'.op \in {"safe_read_sensor", "check_i2c_health"} /\ ResetPerformed(last')) =>
          /\ (last'.reset = "soft") <=> (last'.soft = "ok")
          /\ alerts' # <<>>
          /\ alerts'[Len(alerts')].sev =
                IF last'.reset = "hard_failed" THEN "critical" ELSE "info"]_vars

\* C20: check_i2c_health returns for every behaviour of the bus, and it
\* returns True only if the scan found a device.
C20_HealthCheckReturns ==
    (last.op = "check_i2c_health") =>
        /\ last.returned
        /\ (last.ret = "True") => (last.devices > 0)

----------------------------------------------------------------------------
(* Properties of the robust measurements *)

\* An answer that yields no valid sample: the accessor raises, or the value
\* it returns (bare or in a tuple) is None, NaN or infinite
FailingAnswer(a) == a.raises \/ a.value.type # "float"

AlwaysFails(f) == \A i \in 1..Len(f) : FailingAnswer(f[i])

Measuring == last.op = "take_measurement"

\* C21: for an accessor that fails on every call take_measurement calls it
\* exactly sample_count times and returns None; it returns None whenever
\* fewer than 2 valid samples were collected; and the outliers it reports
\* are valid samples that the result lacks, never discarded invalid ones.
C21_FailingAccessorGivesNone ==
    Measuring =>
        /\ AlwaysFails(sensor_function) =>
               last.calls = sample_count /\ last.result.is_none
        /\ Len(last.collected) < 2 => last.result.is_none
        /\ ~last.result.is_none =>
               last.result.outliers_removed
                   = Len(last.collected) - Len(last.result.raw_samples)

C21_Witness ==
    /\ Measuring
    /\ AlwaysFails(sensor_function)
    /\ \E i, j \in 1..Len(sensor_function) :
           /\ sensor_function[i].raises
           /\ sensor_function[j] = Returns(NaN)
    /\ sample_count = MaxSamples
    /\ last.calls = sample_count
    /\ last.result.is_none

\* The samples a modified z-score rates as beyond 3.5: with a MAD of 0 every
\* sample off the median is infinitely far
Beyond(samples) ==
    {i \in 1..Len(samples) :
        IF Mad2(samples) = 0 THEN 2 * samples[i] # Median2(samples)
        ELSE ~WithinThreshold(samples[i], Median2(samples), Mad2(samples))}

SumOver(samples, idx) ==
    SumSeq([i \in 1..Len(samples) |-> IF i \in idx THEN samples[i] ELSE 0])

\* C22: an isolated extreme sample among a tight bulk is rejected: of the ten
\* samples 7.0 (nine times) and 20.0 the 20.0 is removed, leaving 9 samples
\* with mean 7.0; and whenever at most 30 % of the samples lie beyond 3.5
\* modified z-scores, they are removed and the mean is that of the rest.
C22_IsolatedExtremeRejected ==
    Measuring /\ ~last.result.is_none =>
        /\ sensor_function = ScenarioSamples =>
               /\ last.result.outliers_removed = 1
               /\ last.result.sample_count = 9
               /\ last.result.sum = 70 * 9
        /\ LET far == Beyond(last.collected)
           IN  far # {} /\ 10 * Cardinality(far) <= 3 * Len(last.collected) =>
                   /\ last.result.outliers_removed > 0
                   /\ last.result.sum
                          = SumOver(last.collected, (1..Len(last.collected)) \ far)

Identical(samples) == \A i \in 1..Len(samples) : samples[i] = samples[1]

C24_RejectionCapped ==
    Measuring /\ ~last.result.is_none =>
        /\ Len(last.collected) - Len(Kept(last.collected))
               > (3 * Len(last.collected)) \div 10
           => /\ last.result.raw_samples = last.collected
              /\ last.result.outliers_removed = 0
        /\ 10 * last.result.outliers_removed <= 3 * Len(last.collected)

C24_Witness ==
    /\ Measuring
    /\ ~last.result.is_none
    /\ Len(last.collected) = MaxSamples
    /\ Len(last.collected) - Len(Kept(last.collected)) = 2
    /\ last.result.raw_samples = last.collected
    /\ last.result.outliers_removed = 0

----------------------------------------------------------------------------
(* Properties of the measurement manager *)

ReadingTemperature == last.op = "read_temperature"

\* robust measurement is enabled and set up
RobustEnabled ==
    measurement_manager.enable_robust /\ ~measurement_manager.temp_robust.is_none

\* the robust tier produced a stable result
RobustStable == RobustEnabled /\ ~last.result.is_none /\ last.result.is_stable

\* the last accessor call of the read
SingleRead == CallSensor(sensor_function, last.calls)

\* a single read that gives no (temp_c, temp_source) with a number
SingleReadFails(a) == a.raises \/ ~a.tuple \/ a.value.type # "float"

\* C25: read_temperature returns a value with a provenance tag: 'robust'
\* exactly when robust measurement is enabled and gave a stable result (then
\* the value is its mean); otherwise one single read is made and returned
\* with the tag '<source>_single'; when that read fails too, and only then,
\* the value is the nominal 39.0 with the tag 'fallback'.  An unstable robust
\* result is never the returned value.
C25_ThreeTiersTagged ==
    ReadingTemperature =>
        /\ last.value.type = "float"
        /\ last.source = <<"robust">> <=> RobustStable
        /\ RobustStable =>
               /\ last.value = Value("float", last.result.sum, last.result.sample_count)
               /\ last.calls = temp_sample_count
        /\ ~RobustStable =>
               /\ last.calls = (IF RobustEnabled THEN temp_sample_count ELSE 0) + 1
               /\ IF SingleReadFails(SingleRead)
                  THEN last.value = Value("float", fallback_temp, 1)
                       /\ last.source = <<"fallback">>
                  ELSE last.value = OfSample(SingleRead.value)
                       /\ last.source = <<SingleRead.source, "_single">>

C25_Witness ==
    /\ ReadingTemperature
    /\ RobustEnabled
    /\ ~last.result.is_none
    /\ ~last.result.is_stable
    /\ last.source = <<"rtd", "_single">>

\* C26: take_measurement, read_temperature and read_ph never raise, whatever
\* the accessor does (raising, None, NaN, a wrong type): the fault shows as
\* None or as a lower tier with its tag.
C26_NoExceptionPropagates ==
    /\ last.op \in {"take_measurement", "read_temperature", "read_ph"} => ~last.raised
    /\ last.op = "read_temperature" =>
           last.source = <<"robust">> \/ last.source = <<"fallback">>
               \/ (Len(last.source) = 2 /\ last.source[2] = "_single")
    /\ last.op = "read_ph" =>
           /\ last.source \in {<<"robust">>, <<"single">>, <<"error">>}
           /\ last.value.type = "NoneType" <=> last.source = <<"error">>

C26_Witness ==
    /\ ReadingTemperature
    /\ RobustEnabled
    /\ last.result.is_none
    /\ SingleRead.raises
    /\ ~last.raised
    /\ last.source = <<"fallback">>

----------------------------------------------------------------------------
(* Properties of the component table, the alerts and the readings *)

ShownOK(sm, n) == n \in DOMAIN sm.components /\ get_status(sm).components[n] = "OK"

\* C27: register_component(name) leaves the component in the Failed state,
\* whatever the name and whatever its health was, and changes the health of
\* no other component; a component comes to be shown as OK by get_status only
\* in an update_component_health(name, 'healthy') for that name.
C27_RegisteredStartsFailed ==
    [][/\ last'.op = "register_component" /\ (last' # last \/ components' # components) =>
           /\ DOMAIN components' = DOMAIN components \cup {last'.a}
           /\ components'[last'.a] = 2
           /\ get_status(SM').components[last'.a] = "FAIL"
           /\ \A n \in DOMAIN components \ {last'.a} : components'[n] = components[n]
       /\ \A n \in DOMAIN components' :
              ShownOK(SM', n) /\ ~ShownOK(SM, n) =>
                  /\ last'.op = "update_component_health"
                  /\ last'.a = n
                  /\ last'.b = "healthy"]_vars

C27_Witness ==
    /\ last.op = "register_component"
    /\ components[last.a] = 2
    /\ \E n \in DOMAIN components : n # last.a /\ ShownOK(SM, n)

\* the last MaxAlertsKept elements
MostRecent(s) ==
    IF Len(s) <= MaxAlertsKept THEN s ELSE SubSeq(s, Len(s) - MaxAlertsKept + 1, Len(s))

\* the alert the last call raised, if it raised one
Raised ==
    CASE last.op = "add_alert" -> <<[msg |-> last.a, sev |-> last.b]>>
      [] last.op = "update_component_health" /\ last.c # None /\ last.b # "healthy" ->
             <<[msg |-> <<last.a, last.c>>, sev |-> "warning"]>>
      [] last.op = "update_reading" /\ last.a = "temperature" /\ last.b.isnum
           /\ last.b.v >= temp_critical ->
             <<[msg |-> <<"CRITICAL: Temp", ToString(last.b.v)>>, sev |-> "critical"]>>
      [] last.op = "update_reading" /\ last.a = "temperature" /\ last.b.isnum
           /\ last.b.v >= temp_warning /\ last.b.v < temp_critical ->
             <<[msg |-> <<"WARNING: Temp", ToString(last.b.v)>>, sev |-> "warning"]>>
      [] OTHER -> <<>>

\* C28: the alert list never holds more than 5 alerts; every call that
\* raises an alert, directly or through update_component_health or
\* update_reading, appends it and keeps the 5 most recent in the order they
\* were raised (only the oldest is dropped); a call that raises none leaves
\* the list as it is.
C28_AlertsBoundedNewestKept ==
    [][/\ Len(alerts) <= MaxAlertsKept
       /\ Len(alerts') <= MaxAlertsKept
       /\ alerts' = MostRecent(alerts \o Raised')]_vars

\* five alerts are held and the critical temperature alert of the stored
\* reading is no longer among them
C28_Witness ==
    /\ last.op = "add_alert"
    /\ Len(alerts) = MaxAlertsKept
    /\ alerts[MaxAlertsKept] = [msg |-> last.a, sev |-> last.b]
    /\ "temperature" \in DOMAIN readings
    /\ readings["temperature"].value = Num(temp_critical)
    /\ \A i \in 1..Len(alerts) : alerts[i].sev # "critical" \/ alerts[i].msg[1] # "CRITICAL: Temp"

\* the reading stored for the sensor last asked for, if its age is at most
\* the max_age asked for
RecentReading ==
    IF last.a \in DOMAIN readings /\ now - readings[last.a].time <= last.b
    THEN Found(readings[last.a].value)
    ELSE NoReading

\* C29: update_reading(sensor, value) stores the value with the time of the
\* call for that sensor alone and nothing else changes a stored reading;
\* get_reading(sensor, max_age) returns the stored value when its age is at
\* most max_age, and None when none was stored or it is older.
C29_ReadingFreshOrNone ==
    [][/\ readings' # readings => last'.op = "update_reading"
       /\ last'.op = "update_reading" /\ (last' # last \/ readings' # readings) =>
              readings' = DictSet(readings, last'.a, [value |-> last'.b, time |-> now])
       /\ last'.op = "get_reading" =>
              last'.c = RecentReading']_vars

C29_Witness ==
    /\ last.op = "get_reading"
    /\ last.a \in DOMAIN readings
    /\ now - readings[last.a].time = last.b
    /\ last.c = Found(readings[last.a].value)

----------------------------------------------------------------------------
(* Properties of the time manager *)

\* the call made a sync attempt
SyncAttempted == time_manager'.sync_attempts = time_manager.sync_attempts + 1

\* C30: after a failed sync attempt should_sync_time() is false until
\* failed_sync_retry (300 s) has passed since that attempt, after a
\* successful one it is false until sync_interval (3600 s) has passed; so
\* two sync attempts of update() are never less than 300 s apart.
C30_SyncAttemptsSpaced ==
    [][/\ sync_attempt'.made /\ ~sync_attempt'.success
            /\ now' - sync_attempt'.at < failed_sync_retry
          => ~should_sync_time(time_manager', now')
       /\ sync_attempt'.made /\ sync_attempt'.success
            /\ now' - sync_attempt'.at < sync_interval
          => ~should_sync_time(time_manager', now')
       /\ last'.op = "update" /\ SyncAttempted /\ sync_attempt.made
          => now - sync_attempt.at >= failed_sync_retry]_vars

\* the exchange gave no time, or one that fails the validation
SyncFails(ntp) ==
    ntp.kind # "time" \/ ntp.ts < min_ntp_time \/ ntp.ts > max_ntp_time

\* C31: a sync attempt that times out or fails validation moves
\* current_server_index to the next server, modulo the number of servers,
\* adds 1 to consecutive_failures and clears last_sync_success; a successful
\* one leaves the index and sets consecutive_failures to 0; the index is
\* always a position in the server list.
C31_FailureRotatesServer ==
    [][/\ time_manager'.current_server_index \in 0..(ntp_server_count - 1)
       /\ SyncAttempted /\ SyncFails(last'.ntp) =>
              /\ time_manager'.current_server_index
                     = (time_manager.current_server_index + 1) % ntp_server_count
              /\ time_manager'.consecutive_failures
                     = time_manager.consecutive_failures + 1
              /\ ~time_manager'.last_sync_success
       /\ SyncAttempted /\ ~SyncFails(last'.ntp) =>
              /\ last'.success
              /\ time_manager'.current_server_index = time_manager.current_server_index
              /\ time_manager'.consecutive_failures = 0
              /\ time_manager'.last_sync_success]_vars

C31_Witness ==
    /\ last.op = "update"
    /\ last.attempted
    /\ last.ntp.kind = "timeout"
    /\ time_manager.consecutive_failures = ntp_server_count
    /\ time_manager.current_server_index = 0

\* C32: is_time_valid() is true only when a sync has succeeded and less
\* than max_drift_seconds (86400 s) have passed since the last successful
\* one: it is false before the first success and from 86400 s after the last
\* success on, whatever failed attempts were made since.
C32_ValidityBoundedByLastSuccess ==
    last.op = "is_time_valid" /\ last.ret =>
        /\ sync_attempt.success_at # 0
        /\ now - sync_attempt.success_at < max_drift_seconds

C32_Witness ==
    /\ last.op = "is_time_valid"
    /\ ~last.ret
    /\ sync_attempt.success_at # 0
    /\ now - sync_attempt.success_at = max_drift_seconds
    /\ ~sync_attempt.success
    /\ sync_attempt.at > sync_attempt.success_at

\* the manager's record of a successful sync, and the RTC
SyncRecord(tm) == <<tm.rtc, tm.last_sync_time, tm.successful_syncs>>

\* C36: the RTC is set and last_sync_time and successful_syncs are updated
\* only in a sync attempt that received a timestamp from 2020-01-01 to
\* 2050-01-01, the RTC to that timestamp; a timestamp outside that range
\* makes the attempt fail and leaves all three as they were.
C36_OnlyValidTimeSetsClock ==
    [][/\ SyncRecord(time_manager') # SyncRecord(time_manager) =>
              /\ SyncAttempted
              /\ ~SyncFails(last'.ntp)
              /\ time_manager'.rtc = <<last'.ntp.ts>>
              /\ time_manager'.last_sync_time = now'
              /\ time_manager'.successful_syncs = time_manager.successful_syncs + 1
       /\ SyncAttempted /\ last'.ntp.kind = "time" /\ SyncFails(last'.ntp) =>
              /\ ~last'.success
              /\ SyncRecord(time_manager') = SyncRecord(time_manager)]_vars

C36_Witness ==
    /\ last.op = "update"
    /\ last.attempted
    /\ last.ntp = Ntp("time", max_ntp_time + 1)
    /\ ~last.success
    /\ time_manager.rtc = <<max_ntp_time>>
    /\ time_manager.successful_syncs = 1

\* C35: a publish that fails in send_reading (the transport raising, for
\* instance OSError 32, broken pipe) adds exactly 1 to error_32_count, is
\* reported to the WiFi manager through report_mqtt_error, sets the client
\* to None and marks the mqtt component degraded.
C35_FailedPublishCounted ==
    [][(last'.op = "send_reading" /\ last'.pub = "fail") =>
          /\ error_32_count' = error_32_count + 1
          /\ mqtt_error_count' = mqtt_error_count + 1
          /\ client' = "None"
          /\ components'["mqtt"] = health_map("degraded")]_vars

\* the snapshot calls, and the fields of each computed from time.monotonic()
SnapshotOps == {"StateManager.get_status", "MQTTManager.get_status",
                "TimeManager.get_status", "I2CSafeWrapper.get_stats"}

ClockFields(op) ==
    CASE op = "StateManager.get_status" -> {"temp_safe", "raised"}
      [] op = "MQTTManager.get_status"  -> {"queue_age", "last_attempt", "next_attempt_in"}
      [] op = "TimeManager.get_status"  -> {"time_valid", "time_since_sync", "next_sync_in",
                                            "uptime", "should_sync_now"}
      [] op = "I2CSafeWrapper.get_stats" -> {"last_reset_age"}

ClockFree(op, out) == [f \in (DOMAIN out) \ ClockFields(op) |-> out[f]]

\* the same snapshot is taken in this step as in the step before
SnapshotRepeated == last'.op \in SnapshotOps /\ last.op = last'.op

SubLoopIterations == IF last.op = "safe_read_sensor" THEN last.calls ELSE 0

\* C34: the watchdog is fed in every iteration of a bounded retry
\* sub-loop: a call that runs such a loop for several iterations feeds the
\* watchdog between any two of them.
C34_FedInEverySubLoopIteration ==
    [][watchdog.present /\ should_continue(state) =>
          watchdog'.feeds - watchdog.feeds >= SubLoopIterations' - 1]_vars

\* C40: feed_watchdog calls watchdog.feed() exactly when there is a
\* watchdog and the state is not Critical, the feed count grows only then
\* and only when feed() did not fail, and the call never raises.
C40_FeedOnlyWhileNotCritical ==
    [][last'.op = "feed_watchdog" =>
          /\ last'.called <=> (watchdog.present /\ state # CRITICAL)
          /\ watchdog'.feeds = watchdog.feeds
                 + (IF last'.called /\ ~last'.feed_raises THEN 1 ELSE 0)
          /\ ~last'.raised
          /\ UNCHANGED smVars]_vars

C40_Witness ==
    /\ last.op = "feed_watchdog"
    /\ watchdog.present
    /\ state = CRITICAL
    /\ ~last.called
    /\ watchdog.feeds = 1

\* C37: the confidence interval of a result of n >= 2 samples is
\* mean -/+ t * std_dev / sqrt(n) with t = 2.776 for every n <= 5 and t = 2.0
\* for n > 5 (for samples that differ: with std_dev 0 every t gives the
\* interval (mean, mean)).
C37_ConfidenceIntervalT ==
    Measuring /\ ~last.result.is_none /\ last.result.sample_count >= 2
              /\ last.result.var_num > 0 =>
        last.result.t_critical = IF last.result.sample_count <= 5 THEN 2776 ELSE 2000

\* C38: total_operations - failed_operations counts the safe_read_sensor
\* calls that returned a value: a call that returns a value adds 1 to it, a
\* call that returns None adds nothing and leaves success_rate below 100;
\* failed_operations never exceeds total_operations.
C38_SuccessesCounted ==
    [][(last'.op = "safe_read_sensor" /\ last'.returned) =>
          /\ (total_operations' - failed_operations')
                 - (total_operations - failed_operations)
                = IF last'.ret = "value" THEN 1 ELSE 0
          /\ last'.ret = "None" => BusSnapshot'.success_rate < 1000
          /\ failed_operations' <= total_operations']_vars

\* C39: with at least 2 valid samples collected take_measurement returns a
\* result; the result has at least 2 samples, and its sample_count and
\* outliers_removed add up to the number of valid samples collected.
C39_TwoValidSamplesGiveResult ==
    Measuring /\ Len(last.collected) >= 2 =>
        /\ ~last.raised
        /\ ~last.result.is_none
        /\ last.result.sample_count >= 2
        /\ last.result.sample_count = Len(last.result.raw_samples)
        /\ last.result.sample_count + last.result.outliers_removed = Len(last.collected)

C39_Witness ==
    /\ Measuring
    /\ Len(last.collected) >= 4
    /\ last.result.outliers_removed = 1
    /\ last.result.sample_count = Len(last.collected) - 1

====
